---- MODULE Spec2Model ----
(***************************************************************************)
(* Model of the Arduino-MCP reactive core.                                 *)
(*                                                                         *)
(*   arduino_mcp_server.py : the background monitor thread (ingestion      *)
(*       loop + rule engine) racing with the tool calls that register and  *)
(*       clear conditional actions.                      -> Spec           *)
(*   master_control.py     : the asyncio display routines of               *)
(*       ArduinoController driven by process_command.     -> SpecDisplay   *)
(*                                                                         *)
(* Strings are sequences of lexemes: a lexeme is either a separator        *)
(* (":" or "|") or a separator-free chunk, so that split, startswith, the  *)
(* HH:MM:SS regular expression and == are computed as the code computes    *)
(* them.  Floats are carried in hundredths (5.00 cm = 500).                *)
(***************************************************************************)
EXTENDS Integers, Sequences, FiniteSets, TLC

\* ------------------------------------------------------------------ bounds
MaxRules == 2    \* registrations accepted over a run
MaxEvents == 2   \* device lines read by the monitor over a run
MaxTasks == 2    \* routine tasks created by process_command over a run
MaxCalls == 1    \* tool calls that send a command themselves over a run
MaxStarts == 1   \* monitor threads started while an older one is alive

VARIABLES
    pending_actions,  \* server: the list of pending conditional actions
    arduino_state,    \* server: telemetry dict
    monitor_running,  \* server: flag read by the monitor loop
    mon,              \* server: position and locals of the monitor thread
    tool,             \* server: position and locals of the tool call in progress
    reply,            \* server: what the last finished tool call returned
    sent,             \* server: command lines written to the Link, in order
    fired,            \* history: execute_action calls made by the monitor
    cleared,          \* history: ids removed by clear_all_pending_actions
    last_removed,     \* history: how many rules the last clear() removed
    next_id,          \* history: id given to the next registered rule
    events,           \* history: number of lines the monitor has read
    running,          \* controller: self.running
    clock_active,     \* controller: self.clock_active
    timer_active,     \* controller: self.timer_active
    lcd_clock_active, \* controller: self.lcd_clock_active
    tasks,            \* controller: the routine tasks created, in creation order
    main,             \* controller: position of the main() task
    stop_left,        \* history: routines still alive when the last stop returned
    view,             \* server: what get_current_status has read so far
    stolen,           \* history: lines read by send_command as its response
    failed,           \* history: the errors caught by the monitor so far
    mon2,             \* server: monitor threads started while one was alive
    calls,            \* history: number of tool calls that used the Link
    arduino_connection, \* server: the global Serial object (0 is None)
    getting,          \* server: position of each thread inside get_arduino
    opened            \* history: number of Serial objects opened so far

server_vars == <<pending_actions, arduino_state, monitor_running, mon, tool,
                 reply, sent, fired, cleared, last_removed, next_id, events>>

display_vars == <<running, clock_active, timer_active, lcd_clock_active,
                  tasks, main, stop_left>>

aux_vars == <<view, stolen, failed, mon2, calls>>

conn_vars == <<arduino_connection, getting, opened>>

vars == <<server_vars, display_vars, aux_vars, conn_vars>>

\* ----------------------------------------------------------------- strings
Colon == ":"
Bar == "|"

\* str.split(sep): the pieces between the separators
RECURSIVE Split(_, _)
Split(s, sep) ==
    IF \A i \in 1..Len(s) : s[i] # sep
    THEN <<s>>
    ELSE LET i == CHOOSE j \in 1..Len(s) :
                      s[j] = sep /\ \A k \in 1..(j - 1) : s[k] # sep
         IN <<SubSeq(s, 1, i - 1)>> \o Split(SubSeq(s, i + 1, Len(s)), sep)

\* str.split(sep, 2)[2]: what follows the second separator
AfterSecond(s, sep) ==
    LET i == CHOOSE j \in 1..Len(s) :
                 s[j] = sep /\ \A k \in 1..(j - 1) : s[k] # sep
        r == SubSeq(s, i + 1, Len(s))
        j == CHOOSE m \in 1..Len(r) :
                 r[m] = sep /\ \A k \in 1..(m - 1) : r[k] # sep
    IN SubSeq(r, j + 1, Len(r))

\* str.startswith(p)
StartsWith(s, p) == Len(s) >= Len(p) /\ SubSeq(s, 1, Len(p)) = p

Contains(s, sep) == \E i \in 1..Len(s) : s[i] = sep

\* int(): the decimal numerals the model's inputs use; anything else raises
Numerals ==
    { <<"0", 0>>, <<"00", 0>>, <<"02", 2>>, <<"5", 5>>, <<"500", 500>>,
      <<"75", 75>>, <<"-5", -5>> }

IsInt(s) == Len(s) = 1 /\ \E p \in Numerals : p[1] = s[1]
IntOf(s) == (CHOOSE p \in Numerals : p[1] = s[1])[2]

\* float(): hundredths of a centimetre
Floats == { <<"5.00", 500>>, <<"10", 1000>>, <<"12.50", 1250>> }

IsFloat(s) == Len(s) = 1 /\ \E p \in Floats : p[1] = s[1]
FloatOf(s) == (CHOOSE p \in Floats : p[1] = s[1])[2]

\* f"{n}" of an int
StrOf(n) ==
    CASE n = 0 -> "0"
      [] n = 75 -> "75"
      [] n = 120 -> "120"
      [] n = 500 -> "500"
      [] n = 1000 -> "1000"
      [] OTHER -> "?"

\* f"{distance:.2f}"
Fmt2(d) ==
    CASE d = 500 -> "5.00"
      [] d = 1000 -> "10.00"
      [] d = 1250 -> "12.50"
      [] OTHER -> "?"

\* re.match(r'^\d{2}:\d{2}:\d{2}$', s)
TwoDigits == {"00", "01", "07", "15"}
MatchesHHMMSS(s) ==
    /\ Len(s) = 5
    /\ s[1] \in TwoDigits /\ s[3] \in TwoDigits /\ s[5] \in TwoDigits
    /\ s[2] = Colon /\ s[4] = Colon

\* dict.get(k, d)
Get(p, k, d) == IF k \in DOMAIN p THEN p[k] ELSE d

EmptyDict == [k \in {} |-> 0]
NoneValue == <<>>

\* ------------------------------------------------------------------ inputs
\* Lines the device can put on the Link (after decode/strip)
Lines ==
    { <<"TIMER", ":", "REMAINING", ":", "5">>,
      <<"TIMER", ":", "REMAINING", ":", "0">>,
      <<"COUNTDOWN", ":", "FINISHED">>,
      <<"CLOCK", ":", "LCD", ":", "07", ":", "15", ":", "00">>,
      <<"CLOCK", ":", "LCD", ":", "07", ":", "15", ":", "01">>,
      <<"DISTANCE", ":", "5.00">>,
      <<"DISTANCE", ":", "10">>,
      <<"DISTANCE", ":", "xyz">>,
      <<"OK">> }

\* Lines of the timer category: countdown reports, one of them with a signed
\* number (int() accepts a sign), one that does not parse, and the end report
TimerLines ==
    { <<"TIMER", ":", "REMAINING", ":", "5">>,
      <<"TIMER", ":", "REMAINING", ":", "-5">>,
      <<"TIMER", ":", "REMAINING", ":", "abc">>,
      <<"COUNTDOWN", ":", "FINISHED">> }

\* (then_action, action_params) pairs a caller passes to the when_* tools
ActionInputs ==
    { <<"buzzer_beep", <<"500">>>>,
      <<"start_timer", <<"02", ":", "00">>>>,
      <<"start_timer", <<"90">>>> }

\* target_time arguments of when_time_equals
TargetTimes ==
    { <<"07", ":", "15", ":", "00">>,
      <<"7", ":", "15", ":", "00">> }

\* distance_cm arguments of when_distance_less_than (hundredths)
Thresholds == {1000}

\* ---------------------------------------------------------------- commands
\* (ExecuteActionElseSends is the variant of execute_action whose chain ends
\* in an else branch that sends the command parameter.)
ExecuteActionElseSends(action) ==
    LET action_type == action.action_type
        params == Get(action, "params", EmptyDict)
    IN IF action_type = "buzzer_beep"
       THEN << <<"BUZZER", ":", "BEEP", ":",
                 StrOf(Get(params, "duration", 1000))>> >>
       ELSE IF action_type = "start_timer"
       THEN << <<"TM1637", ":", "COUNTDOWN", ":",
                 StrOf(Get(params, "minutes", 0) * 60
                       + Get(params, "seconds", 0))>> >>
       ELSE IF action_type = "led_blink"
       THEN << <<"LED", ":", "BLINK", ":",
                 StrOf(Get(params, "interval", 1000))>> >>
       ELSE IF action_type = "display_message"
       THEN << <<"LCD", ":", "LINE1", ":">> \o Get(params, "line1", <<>>),
               <<"LCD", ":", "LINE2", ":">> \o Get(params, "line2", <<>>) >>
       ELSE << Get(params, "command", <<>>) >>

\* execute_action: the command lines it hands to send_command, in order
execute_action(action) ==
    LET action_type == action.action_type
        params == Get(action, "params", EmptyDict)
    IN IF action_type = "buzzer_beep"
       THEN << <<"BUZZER", ":", "BEEP", ":",
                 StrOf(Get(params, "duration", 1000))>> >>
       ELSE IF action_type = "start_timer"
       THEN << <<"TM1637", ":", "COUNTDOWN", ":",
                 StrOf(Get(params, "minutes", 0) * 60
                       + Get(params, "seconds", 0))>> >>
       ELSE IF action_type = "led_blink"
       THEN << <<"LED", ":", "BLINK", ":",
                 StrOf(Get(params, "interval", 1000))>> >>
       ELSE IF action_type = "display_message"
       THEN << <<"LCD", ":", "LINE1", ":">> \o Get(params, "line1", <<>>),
               <<"LCD", ":", "LINE2", ":">> \o Get(params, "line2", <<>>) >>
       ELSE IF action_type = "custom_command"
       THEN << Get(params, "command", <<>>) >>
       ELSE << >>

\* the continuous distance echo of the monitor
DistanceEcho(distance) ==
    <<"LCD", ":", "LINE2", ":", Fmt2(distance), " cm       ">>

\* --------------------------------------------------- when_*: parameter parse
\* The "Parse action parameters" block shared by the three when_* tools:
\* status "ok" with the params dict, "error" (an Error string is returned) or
\* "raised" (int() raised ValueError out of the tool).
ParseParams(then_action, action_params) ==
    IF then_action \in {"buzzer_beep", "led_blink"}
    THEN LET key == IF then_action = "buzzer_beep" THEN "duration"
                    ELSE "interval"
         IN IF action_params = <<>>
            THEN [status |-> "ok", params |-> [k \in {key} |-> 1000]]
            ELSE IF IsInt(action_params)
            THEN [status |-> "ok",
                  params |-> [k \in {key} |-> IntOf(action_params)]]
            ELSE [status |-> "raised", params |-> EmptyDict]
    ELSE IF then_action = "start_timer"
    THEN IF Contains(action_params, Colon)
         THEN LET parts == Split(action_params, Colon)
              IN IF IsInt(parts[1]) /\ IsInt(parts[2])
                 THEN [status |-> "ok",
                       params |-> [minutes |-> IntOf(parts[1]),
                                   seconds |-> IntOf(parts[2])]]
                 ELSE [status |-> "raised", params |-> EmptyDict]
         ELSE [status |-> "error", params |-> EmptyDict]
    ELSE IF then_action = "display_message"
    THEN IF Contains(action_params, Bar)
         THEN LET parts == Split(action_params, Bar)
              IN [status |-> "ok",
                  params |-> [line1 |-> parts[1], line2 |-> parts[2]]]
         ELSE [status |-> "ok",
               params |-> [line1 |-> action_params, line2 |-> <<>>]]
    ELSE [status |-> "ok", params |-> EmptyDict]

\* ------------------------------------------------------------ monitor: parse
\* the if/elif chain on line.startswith(...)
Kind(line) ==
    IF StartsWith(line, <<"TIMER", ":", "REMAINING", ":">>) THEN "timer"
    ELSE IF StartsWith(line, <<"COUNTDOWN", ":", "FINISHED">>) THEN "finished"
    ELSE IF StartsWith(line, <<"CLOCK", ":", "LCD", ":">>) THEN "clock"
    ELSE IF StartsWith(line, <<"DISTANCE", ":">>) THEN "distance"
    ELSE "other"

\* int(line.split(':')[2]) and float(line.split(':')[1]) do not raise
ParseOk(line) ==
    CASE Kind(line) = "timer" -> IsInt(Split(line, Colon)[3])
      [] Kind(line) = "distance" -> IsFloat(Split(line, Colon)[2])
      [] OTHER -> TRUE

\* the value the branch works with: remaining, time_str or distance
Value(line) ==
    CASE Kind(line) = "timer" -> IntOf(Split(line, Colon)[3])
      [] Kind(line) = "clock" -> AfterSecond(line, Colon)
      [] Kind(line) = "distance" -> FloatOf(Split(line, Colon)[2])
      [] OTHER -> 0

\* variant of Updates in which COUNTDOWN:FINISHED leaves timer_active True
UpdatesKeepingTimerActive(line, now) ==
    CASE Kind(line) = "timer" ->
           << <<"timer_remaining", Value(line)>>, <<"timer_active", TRUE>>,
              <<"last_update", now>> >>
      [] Kind(line) = "finished" ->
           << <<"timer_remaining", 0>>, <<"timer_active", TRUE>>,
              <<"last_update", now>> >>
      [] Kind(line) = "clock" ->
           << <<"clock_time", Value(line)>>, <<"last_update", now>> >>
      [] Kind(line) = "distance" ->
           << <<"distance", Value(line)>>, <<"last_update", now>> >>
      [] OTHER -> << >>

\* variant of Updates in which the CLOCK:LCD branch also resets the distance
UpdatesClockResetsDistance(line, now) ==
    CASE Kind(line) = "timer" ->
           << <<"timer_remaining", Value(line)>>, <<"timer_active", TRUE>>,
              <<"last_update", now>> >>
      [] Kind(line) = "finished" ->
           << <<"timer_remaining", 0>>, <<"timer_active", FALSE>>,
              <<"last_update", now>> >>
      [] Kind(line) = "clock" ->
           << <<"clock_time", Value(line)>>, <<"distance", 0>>,
              <<"last_update", now>> >>
      [] Kind(line) = "distance" ->
           << <<"distance", Value(line)>>, <<"last_update", now>> >>
      [] OTHER -> << >>

\* variant of Updates in which the DISTANCE branch does not write last_update
UpdatesWithoutStamp(line, now) ==
    CASE Kind(line) = "timer" ->
           << <<"timer_remaining", Value(line)>>, <<"timer_active", TRUE>>,
              <<"last_update", now>> >>
      [] Kind(line) = "finished" ->
           << <<"timer_remaining", 0>>, <<"timer_active", FALSE>>,
              <<"last_update", now>> >>
      [] Kind(line) = "clock" ->
           << <<"clock_time", Value(line)>>, <<"last_update", now>> >>
      [] Kind(line) = "distance" ->
           << <<"distance", Value(line)>> >>
      [] OTHER -> << >>

\* the arduino_state[...] = ... assignments of the branch, in program order;
\* now stands for time.time()
Updates(line, now) ==
    CASE Kind(line) = "timer" ->
           << <<"timer_remaining", Value(line)>>, <<"timer_active", TRUE>>,
              <<"last_update", now>> >>
      [] Kind(line) = "finished" ->
           << <<"timer_remaining", 0>>, <<"timer_active", FALSE>>,
              <<"last_update", now>> >>
      [] Kind(line) = "clock" ->
           << <<"clock_time", Value(line)>>, <<"last_update", now>> >>
      [] Kind(line) = "distance" ->
           << <<"distance", Value(line)>>, <<"last_update", now>> >>
      [] OTHER -> << >>

\* variant of Loops in which a TIMER:REMAINING:0 line also runs the timer_zero
\* loop
LoopsOnRemainingZero(line) ==
    CASE Kind(line) = "finished" -> <<"timer_zero">>
      [] Kind(line) = "timer" /\ Value(line) = 0 -> <<"timer_zero">>
      [] Kind(line) = "clock" -> <<"time_equals">>
      [] Kind(line) = "distance" -> <<"distance_update", "distance_less_than">>
      [] OTHER -> << >>

\* the "for action in pending_actions[:]" loops of the branch, by the trigger
\* each one looks for
Loops(line) ==
    CASE Kind(line) = "finished" -> <<"timer_zero">>
      [] Kind(line) = "clock" -> <<"time_equals">>
      [] Kind(line) = "distance" -> <<"distance_update", "distance_less_than">>
      [] OTHER -> << >>

\* variant of Matches with distance <= target_distance
MatchesAtThreshold(action, trigger, line) ==
    /\ action.trigger = trigger
    /\ trigger = "time_equals" => Value(line) = action.target_time
    /\ trigger = "distance_less_than" => Value(line) <= action.target_distance

\* variant of Matches that compares hours and minutes only
MatchesToTheMinute(action, trigger, line) ==
    /\ action.trigger = trigger
    /\ trigger = "time_equals" =>
           SubSeq(Value(line), 1, 3) = SubSeq(action.target_time, 1, 3)
    /\ trigger = "distance_less_than" => Value(line) < action.target_distance

\* the if-conditions inside a loop body
Matches(action, trigger, line) ==
    /\ action.trigger = trigger
    /\ trigger = "time_equals" => Value(line) = action.target_time
    /\ trigger = "distance_less_than" => Value(line) < action.target_distance

\* list.remove(x) compares by ==: the history id is no part of the dict
Code(action) == [k \in (DOMAIN action) \ {"id"} |-> action[k]]
SameDict(a, b) == Code(a) = Code(b)

HasEqual(list, action) == \E i \in 1..Len(list) : SameDict(list[i], action)

\* list.remove(x): drops the first element equal to x
Remove(list, action) ==
    LET i == CHOOSE j \in 1..Len(list) :
                 SameDict(list[j], action)
                 /\ \A k \in 1..(j - 1) : ~SameDict(list[k], action)
    IN SubSeq(list, 1, i - 1) \o SubSeq(list, i + 1, Len(list))

\* ---------------------------------------------------------- server: initial
IdleMon ==
    [pc |-> "loop", line |-> <<>>, k |-> 0, lp |-> 0, snap |-> <<>>, idx |-> 0]

IdleTool == [pc |-> "idle", count |-> 0]

NoReply == [tool |-> "none", status |-> "none", count |-> 0]

\* module load: the globals, then start_background_monitor()
ServerInit ==
    /\ pending_actions = <<>>
    /\ arduino_state = [timer_remaining |-> 0, timer_active |-> FALSE,
                        clock_time |-> NoneValue, distance |-> 0,
                        last_update |-> 0]
    /\ monitor_running = TRUE
    /\ mon = IdleMon
    /\ tool = IdleTool
    /\ reply = NoReply
    /\ sent = <<>>
    /\ fired = <<>>
    /\ cleared = {}
    /\ last_removed = 0
    /\ next_id = 1
    /\ events = 0

\* send_command: the command line is written to the Link
send_command(link, command) == Append(link, command)

RECURSIVE SendAll(_, _)
SendAll(link, commands) ==
    IF commands = <<>> THEN link
    ELSE SendAll(send_command(link, Head(commands)), Tail(commands))

\* ----------------------------------------------------------- monitor thread
\* (AdvanceToLast is the variant of Advance that goes to the last matching
\* element of the snapshot instead of the next one.)
\* Where the monitor goes after examining snap[m.idx]: on to the next element
\* of the snapshot that passes the if-conditions, else to the next loop of the
\* branch, else to the sleep at the end of the iteration.
AdvanceToLast(m) ==
    LET trigger == Loops(m.line)[m.lp]
        J == {j \in (m.idx + 1)..Len(m.snap) : Matches(m.snap[j], trigger, m.line)}
    IN IF J # {}
       THEN [m EXCEPT !.pc = "body",
                      !.idx = CHOOSE j \in J : \A i \in J : j >= i]
       ELSE IF m.lp < Len(Loops(m.line))
       THEN [m EXCEPT !.pc = "scan", !.lp = m.lp + 1, !.snap = <<>>, !.idx = 0]
       ELSE IdleMon

Advance(m) ==
    LET trigger == Loops(m.line)[m.lp]
        J == {j \in (m.idx + 1)..Len(m.snap) : Matches(m.snap[j], trigger, m.line)}
    IN IF J # {}
       THEN [m EXCEPT !.pc = "body",
                      !.idx = CHOOSE j \in J : \A i \in J : j <= i]
       ELSE IF m.lp < Len(Loops(m.line))
       THEN [m EXCEPT !.pc = "scan", !.lp = m.lp + 1, !.snap = <<>>, !.idx = 0]
       ELSE IdleMon

\* while monitor_running: ... readline() ... and the branch is chosen.  A line
\* of no known prefix, or one whose number does not parse (the except branch),
\* ends the iteration.
MonitorRead(line) ==
    /\ mon.pc = "loop"
    /\ monitor_running
    /\ events < MaxEvents
    /\ events' = events + 1
    /\ mon' = IF Kind(line) = "other" \/ ~ParseOk(line)
              THEN IdleMon
              ELSE [IdleMon EXCEPT !.pc = "update", !.line = line]
    /\ UNCHANGED <<pending_actions, arduino_state, monitor_running, tool,
                   reply, sent, fired, cleared, last_removed, next_id>>
    /\ UNCHANGED <<conn_vars, display_vars, aux_vars>>

\* one arduino_state[...] = ... assignment
MonitorUpdate ==
    /\ mon.pc = "update"
    /\ LET ups == Updates(mon.line, events)
           u == ups[mon.k + 1]
       IN /\ arduino_state' = [arduino_state EXCEPT ![u[1]] = u[2]]
          /\ mon' = IF mon.k + 1 < Len(ups)
                    THEN [mon EXCEPT !.k = mon.k + 1]
                    ELSE IF Loops(mon.line) = <<>>
                    THEN IdleMon
                    ELSE [mon EXCEPT !.pc = "scan", !.k = 0, !.lp = 1]
    /\ UNCHANGED <<pending_actions, monitor_running, tool, reply, sent, fired,
                   cleared, last_removed, next_id, events>>
    /\ UNCHANGED <<conn_vars, display_vars, aux_vars>>

\* for action in pending_actions[:]  -- the copy is taken
MonitorScan ==
    /\ mon.pc = "scan"
    /\ mon' = Advance([mon EXCEPT !.snap = pending_actions, !.idx = 0])
    /\ UNCHANGED <<pending_actions, arduino_state, monitor_running, tool,
                   reply, sent, fired, cleared, last_removed, next_id, events>>
    /\ UNCHANGED <<conn_vars, display_vars, aux_vars>>

\* loop body for a distance_update rule: send_command(LCD:LINE2:...)
MonitorEcho ==
    /\ mon.pc = "body"
    /\ Loops(mon.line)[mon.lp] = "distance_update"
    /\ sent' = send_command(sent, DistanceEcho(Value(mon.line)))
    /\ mon' = Advance(mon)
    /\ UNCHANGED <<pending_actions, arduino_state, monitor_running, tool,
                   reply, fired, cleared, last_removed, next_id, events>>
    /\ UNCHANGED <<conn_vars, display_vars, aux_vars>>

\* loop body for a one-shot rule, first statement: execute_action(action)
MonitorExecute ==
    /\ mon.pc = "body"
    /\ Loops(mon.line)[mon.lp] # "distance_update"
    /\ LET action == mon.snap[mon.idx]
       IN /\ sent' = SendAll(sent, execute_action(action))
          /\ fired' = Append(fired, [action |-> action, line |-> mon.line,
                                     event |-> events])
    /\ mon' = [mon EXCEPT !.pc = "remove"]
    /\ UNCHANGED <<pending_actions, arduino_state, monitor_running, tool,
                   reply, cleared, last_removed, next_id, events>>
    /\ UNCHANGED <<conn_vars, display_vars, aux_vars>>

\* loop body, second statement: pending_actions.remove(action); when no equal
\* element is left it raises ValueError and the except branch ends the
\* iteration
MonitorRemove ==
    /\ mon.pc = "remove"
    /\ LET action == mon.snap[mon.idx]
       IN IF HasEqual(pending_actions, action)
          THEN /\ pending_actions' = Remove(pending_actions, action)
               /\ mon' = Advance(mon)
          ELSE /\ pending_actions' = pending_actions
               /\ mon' = IdleMon
    /\ UNCHANGED <<arduino_state, monitor_running, tool, reply, sent, fired,
                   cleared, last_removed, next_id, events>>
    /\ UNCHANGED <<conn_vars, display_vars, aux_vars>>

\* (MonitorFaultEndsThread is the variant of MonitorFault in which the
\* exception is not caught and the thread ends.)
MonitorFaultEndsThread ==
    /\ mon.pc = "loop"
    /\ monitor_running
    /\ failed' = failed \cup {<<"link", events>>}
    /\ mon' = [IdleMon EXCEPT !.pc = "stopped"]
    /\ UNCHANGED <<pending_actions, arduino_state, monitor_running, tool,
                   reply, sent, fired, cleared, last_removed, next_id, events>>
    /\ UNCHANGED <<conn_vars, display_vars, view, stolen, mon2, calls>>

\* get_arduino() raises (the port cannot be opened) or in_waiting / readline()
\* raises: except Exception, time.sleep(0.5), and the while condition is
\* tested again.  failed is history: the errors caught so far, each with the
\* number of lines read before it.
MonitorFault ==
    /\ mon.pc = "loop"
    /\ monitor_running
    /\ failed' = failed \cup {<<"link", events>>}
    /\ mon' = IdleMon
    /\ UNCHANGED <<pending_actions, arduino_state, monitor_running, tool,
                   reply, sent, fired, cleared, last_removed, next_id, events>>
    /\ UNCHANGED <<conn_vars, display_vars, view, stolen, mon2, calls>>

\* (MonitorEchoFailedEndsIteration is the variant of MonitorEchoFailed in
\* which the failed write ends the iteration.)
MonitorEchoFailedEndsIteration ==
    /\ mon.pc = "body"
    /\ Loops(mon.line)[mon.lp] = "distance_update"
    /\ failed' = failed \cup {<<"echo", events>>}
    /\ mon' = IdleMon
    /\ UNCHANGED <<pending_actions, arduino_state, monitor_running, tool,
                   reply, sent, fired, cleared, last_removed, next_id, events>>
    /\ UNCHANGED <<conn_vars, display_vars, view, stolen, mon2, calls>>

\* loop body for a distance_update rule when arduino.write raises:
\* send_command returns "ERROR: ...", which the loop ignores
MonitorEchoFailed ==
    /\ mon.pc = "body"
    /\ Loops(mon.line)[mon.lp] = "distance_update"
    /\ failed' = failed \cup {<<"echo", events>>}
    /\ mon' = Advance(mon)
    /\ UNCHANGED <<pending_actions, arduino_state, monitor_running, tool,
                   reply, sent, fired, cleared, last_removed, next_id, events>>
    /\ UNCHANGED <<conn_vars, display_vars, view, stolen, mon2, calls>>

\* (MonitorExecuteFailedKeepsRule is the variant of MonitorExecuteFailed in
\* which the failure ends the iteration before the rule is removed.)
MonitorExecuteFailedKeepsRule ==
    /\ mon.pc = "body"
    /\ Loops(mon.line)[mon.lp] # "distance_update"
    /\ LET action == mon.snap[mon.idx]
       IN /\ failed' = failed \cup {<<"send", action.id>>}
          /\ fired' = Append(fired, [action |-> action, line |-> mon.line,
                                     event |-> events])
    /\ mon' = IdleMon
    /\ UNCHANGED <<pending_actions, arduino_state, monitor_running, tool,
                   reply, sent, cleared, last_removed, next_id, events>>
    /\ UNCHANGED <<conn_vars, display_vars, view, stolen, mon2, calls>>

\* loop body for a one-shot rule, first statement, when the command cannot
\* be sent: arduino.write raises and send_command returns "ERROR: ...", or
\* get_arduino() raises and the except branch of execute_action prints the
\* error.  execute_action returns normally and nothing reaches the Link.
MonitorExecuteFailed ==
    /\ mon.pc = "body"
    /\ Loops(mon.line)[mon.lp] # "distance_update"
    /\ LET action == mon.snap[mon.idx]
       IN /\ failed' = failed \cup {<<"send", action.id>>}
          /\ fired' = Append(fired, [action |-> action, line |-> mon.line,
                                     event |-> events])
    /\ mon' = [mon EXCEPT !.pc = "remove"]
    /\ UNCHANGED <<pending_actions, arduino_state, monitor_running, tool,
                   reply, sent, cleared, last_removed, next_id, events>>
    /\ UNCHANGED <<conn_vars, display_vars, view, stolen, mon2, calls>>

\* while monitor_running: the flag is found False and the thread ends
MonitorExit ==
    /\ mon.pc = "loop"
    /\ ~monitor_running
    /\ mon' = [IdleMon EXCEPT !.pc = "stopped"]
    /\ UNCHANGED <<pending_actions, arduino_state, monitor_running, tool,
                   reply, sent, fired, cleared, last_removed, next_id, events>>
    /\ UNCHANGED <<conn_vars, display_vars, aux_vars>>

stop_background_monitor ==
    /\ tool.pc = "idle"
    /\ monitor_running
    /\ monitor_running' = FALSE
    /\ UNCHANGED <<pending_actions, arduino_state, mon, tool, reply, sent,
                   fired, cleared, last_removed, next_id, events>>
    /\ UNCHANGED <<conn_vars, display_vars, aux_vars>>

\* start_background_monitor(), called again after module load: with
\* monitor_running True the call returns at once; otherwise the flag is set
\* and a new thread runs monitor_arduino_status.  When the earlier thread has
\* ended, mon is the new thread; when it is still alive, the new thread is one
\* more entry of mon2, a thread of its own at the while test.
start_background_monitor ==
    /\ tool.pc = "idle"
    /\ IF monitor_running
       THEN UNCHANGED <<monitor_running, mon, mon2>>
       ELSE /\ monitor_running' = TRUE
            /\ IF mon.pc = "stopped"
               THEN mon' = IdleMon /\ mon2' = mon2
               ELSE /\ Len(mon2) < MaxStarts
                    /\ mon2' = Append(mon2, IdleMon)
                    /\ mon' = mon
    /\ UNCHANGED <<pending_actions, arduino_state, tool, reply, sent, fired,
                   cleared, last_removed, next_id, events>>
    /\ UNCHANGED <<conn_vars, display_vars, view, stolen, failed, calls>>

\* while monitor_running, in a thread of mon2: the flag is found False and the
\* thread ends
Monitor2Exit(i) ==
    /\ i \in 1..Len(mon2)
    /\ mon2[i].pc = "loop"
    /\ ~monitor_running
    /\ mon2' = [mon2 EXCEPT ![i] = [IdleMon EXCEPT !.pc = "stopped"]]
    /\ UNCHANGED <<conn_vars, server_vars, display_vars, view, stolen, failed, calls>>

\* ------------------------------------------------- a second monitor thread
\* monitor_arduino_status as run by a thread of mon2: the same code as the
\* thread of mon, on the same globals and the same connection.  (With two
\* threads, events counts the lines read by both.)
Monitor2Read(i, line) ==
    /\ i \in 1..Len(mon2)
    /\ mon2[i].pc = "loop"
    /\ monitor_running
    /\ events < MaxEvents
    /\ events' = events + 1
    /\ mon2' = [mon2 EXCEPT ![i] =
                   IF Kind(line) = "other" \/ ~ParseOk(line)
                   THEN IdleMon
                   ELSE [IdleMon EXCEPT !.pc = "update", !.line = line]]
    /\ UNCHANGED <<pending_actions, arduino_state, monitor_running, mon, tool,
                   reply, sent, fired, cleared, last_removed, next_id>>
    /\ UNCHANGED <<conn_vars, display_vars, view, stolen, failed, calls>>

Monitor2Update(i) ==
    /\ i \in 1..Len(mon2)
    /\ mon2[i].pc = "update"
    /\ LET m == mon2[i]
           ups == Updates(m.line, events)
           u == ups[m.k + 1]
       IN /\ arduino_state' = [arduino_state EXCEPT ![u[1]] = u[2]]
          /\ mon2' = [mon2 EXCEPT ![i] =
                 IF m.k + 1 < Len(ups)
                 THEN [m EXCEPT !.k = m.k + 1]
                 ELSE IF Loops(m.line) = <<>>
                 THEN IdleMon
                 ELSE [m EXCEPT !.pc = "scan", !.k = 0, !.lp = 1]]
    /\ UNCHANGED <<pending_actions, monitor_running, mon, tool, reply, sent,
                   fired, cleared, last_removed, next_id, events>>
    /\ UNCHANGED <<conn_vars, display_vars, view, stolen, failed, calls>>

Monitor2Scan(i) ==
    /\ i \in 1..Len(mon2)
    /\ mon2[i].pc = "scan"
    /\ mon2' = [mon2 EXCEPT ![i] =
                   Advance([mon2[i] EXCEPT !.snap = pending_actions, !.idx = 0])]
    /\ UNCHANGED <<conn_vars, server_vars, display_vars, view, stolen, failed, calls>>

Monitor2Echo(i) ==
    /\ i \in 1..Len(mon2)
    /\ mon2[i].pc = "body"
    /\ Loops(mon2[i].line)[mon2[i].lp] = "distance_update"
    /\ sent' = send_command(sent, DistanceEcho(Value(mon2[i].line)))
    /\ mon2' = [mon2 EXCEPT ![i] = Advance(mon2[i])]
    /\ UNCHANGED <<pending_actions, arduino_state, monitor_running, mon, tool,
                   reply, fired, cleared, last_removed, next_id, events>>
    /\ UNCHANGED <<conn_vars, display_vars, view, stolen, failed, calls>>

Monitor2Execute(i) ==
    /\ i \in 1..Len(mon2)
    /\ mon2[i].pc = "body"
    /\ Loops(mon2[i].line)[mon2[i].lp] # "distance_update"
    /\ LET action == mon2[i].snap[mon2[i].idx]
       IN /\ sent' = SendAll(sent, execute_action(action))
          /\ fired' = Append(fired, [action |-> action, line |-> mon2[i].line,
                                     event |-> events])
    /\ mon2' = [mon2 EXCEPT ![i].pc = "remove"]
    /\ UNCHANGED <<pending_actions, arduino_state, monitor_running, mon, tool,
                   reply, cleared, last_removed, next_id, events>>
    /\ UNCHANGED <<conn_vars, display_vars, view, stolen, failed, calls>>

Monitor2Remove(i) ==
    /\ i \in 1..Len(mon2)
    /\ mon2[i].pc = "remove"
    /\ LET action == mon2[i].snap[mon2[i].idx]
       IN IF HasEqual(pending_actions, action)
          THEN /\ pending_actions' = Remove(pending_actions, action)
               /\ mon2' = [mon2 EXCEPT ![i] = Advance(mon2[i])]
          ELSE /\ pending_actions' = pending_actions
               /\ mon2' = [mon2 EXCEPT ![i] = IdleMon]
    /\ UNCHANGED <<arduino_state, monitor_running, mon, tool, reply, sent,
                   fired, cleared, last_removed, next_id, events>>
    /\ UNCHANGED <<conn_vars, display_vars, view, stolen, failed, calls>>

\* ------------------------------------------------------------- get_arduino
\* the threads that call get_arduino: the monitor thread (each iteration of
\* its loop) and the thread that runs a tool call.  The tool call is
\* ultrasonic_read, which calls get_arduino itself and again inside
\* send_command.  For each thread, got is the object its last get_arduino
\* returned, held is the object ultrasonic_read keeps in its local arduino,
\* and all is history: every object the thread was ever given.
Callers == {"monitor", "tool"}

\* get_arduino: if arduino_connection is None or not arduino_connection.is_open
\* -- the connection is there and is returned, or the thread goes on to open
\* one (nothing in the server closes a connection, so is_open is True)
GetArduinoTest(c) ==
    /\ getting[c].pc = "out"
    /\ getting' = [getting EXCEPT ![c] =
                      IF arduino_connection = 0
                      THEN [@ EXCEPT !.pc = "open", !.got = 0]
                      ELSE [@ EXCEPT !.pc = "has", !.got = arduino_connection,
                                     !.all = @ \cup {arduino_connection}]]
    /\ UNCHANGED <<arduino_connection, opened>>
    /\ UNCHANGED <<server_vars, display_vars, aux_vars>>

\* arduino_connection = serial.Serial(COM_PORT, BAUD_RATE, timeout=0.5): the
\* port is opened, a new Serial object is made and assigned to the global
GetArduinoOpen(c) ==
    /\ getting[c].pc = "open"
    /\ opened' = opened + 1
    /\ arduino_connection' = opened + 1
    /\ getting' = [getting EXCEPT ![c].pc = "sleep"]
    /\ UNCHANGED <<server_vars, display_vars, aux_vars>>

\* serial.Serial raises SerialException (no device, or the port is held by
\* another Serial object and the platform refuses a second open):
\* raise Exception("Failed to connect ...")
GetArduinoOpenFails(c) ==
    /\ getting[c].pc = "open"
    /\ getting' = [getting EXCEPT ![c].pc = "raised"]
    /\ UNCHANGED <<arduino_connection, opened>>
    /\ UNCHANGED <<server_vars, display_vars, aux_vars>>

\* time.sleep(2) is over: return arduino_connection (the global is read again)
GetArduinoReturn(c) ==
    /\ getting[c].pc = "sleep"
    /\ getting' = [getting EXCEPT ![c] =
                      [@ EXCEPT !.pc = "has", !.got = arduino_connection,
                                !.all = @ \cup {arduino_connection}]]
    /\ UNCHANGED <<arduino_connection, opened>>
    /\ UNCHANGED <<server_vars, display_vars, aux_vars>>

\* monitor_arduino_status: the iteration that called get_arduino ends (a
\* line was read or not, or the exception was caught) and the loop calls again
MonitorIterationEnds ==
    /\ getting["monitor"].pc \in {"has", "raised"}
    /\ getting' = [getting EXCEPT !["monitor"].pc = "out"]
    /\ UNCHANGED <<arduino_connection, opened>>
    /\ UNCHANGED <<server_vars, display_vars, aux_vars>>

\* ultrasonic_read: arduino = get_arduino() has returned and
\* send_command("ULTRA:READ") is entered, which calls get_arduino() itself
UltrasonicReadSends ==
    /\ getting["tool"].pc = "has"
    /\ getting["tool"].held = 0
    /\ getting' = [getting EXCEPT !["tool"].pc = "out",
                                  !["tool"].held = getting["tool"].got]
    /\ UNCHANGED <<arduino_connection, opened>>
    /\ UNCHANGED <<server_vars, display_vars, aux_vars>>

\* ultrasonic_read: send_command has written on the object its get_arduino
\* returned, the response is read from the local arduino, and the tool
\* returns; or get_arduino raised and the exception leaves the tool
UltrasonicReadEnds ==
    /\ \/ getting["tool"].pc = "has" /\ getting["tool"].held # 0
       \/ getting["tool"].pc = "raised"
    /\ getting' = [getting EXCEPT !["tool"].pc = "out", !["tool"].held = 0]
    /\ UNCHANGED <<arduino_connection, opened>>
    /\ UNCHANGED <<server_vars, display_vars, aux_vars>>

\* (RegisterQueuesOnError is the variant of Register that appends the rule
\* before it returns the error.)
RegisterQueuesOnError(name, rule, parsed) ==
    /\ tool.pc = "idle"
    /\ next_id <= MaxRules
    /\ pending_actions' =
           Append(pending_actions,
                  [k \in DOMAIN rule \cup {"id", "params"} |->
                      IF k = "id" THEN next_id
                      ELSE IF k = "params" THEN parsed.params
                      ELSE rule[k]])
    /\ next_id' = next_id + 1
    /\ reply' = [tool |-> name,
                 status |-> IF parsed.status = "ok" THEN "set"
                            ELSE parsed.status,
                 count |-> 0]
    /\ UNCHANGED <<arduino_state, monitor_running, mon, tool, sent, fired,
                   cleared, last_removed, events>>
    /\ UNCHANGED <<conn_vars, display_vars, aux_vars>>

\* --------------------------------------------------------------- tool calls
\* "Add to pending actions": the dict is appended and the tool returns; a
\* parse that failed returns (or raises) before anything is appended.
Register(name, rule, parsed) ==
    /\ tool.pc = "idle"
    /\ next_id <= MaxRules
    /\ IF parsed.status = "ok"
       THEN /\ pending_actions' =
                 Append(pending_actions,
                        [k \in DOMAIN rule \cup {"id", "params"} |->
                            IF k = "id" THEN next_id
                            ELSE IF k = "params" THEN parsed.params
                            ELSE rule[k]])
            /\ next_id' = next_id + 1
            /\ reply' = [tool |-> name, status |-> "set", count |-> 0]
       ELSE /\ UNCHANGED <<pending_actions, next_id>>
            /\ reply' = [tool |-> name, status |-> parsed.status, count |-> 0]
    /\ UNCHANGED <<arduino_state, monitor_running, mon, tool, sent, fired,
                   cleared, last_removed, events>>
    /\ UNCHANGED <<conn_vars, display_vars, aux_vars>>

when_timer_finishes(then_action, action_params) ==
    Register("when_timer_finishes",
             [trigger |-> "timer_zero", action_type |-> then_action],
             ParseParams(then_action, action_params))

when_time_equals(target_time, then_action, action_params) ==
    Register("when_time_equals",
             [trigger |-> "time_equals", target_time |-> target_time,
              action_type |-> then_action],
             IF MatchesHHMMSS(target_time)
             THEN ParseParams(then_action, action_params)
             ELSE [status |-> "error", params |-> EmptyDict])

when_distance_less_than(distance_cm, then_action, action_params) ==
    Register("when_distance_less_than",
             [trigger |-> "distance_less_than", target_distance |-> distance_cm,
              action_type |-> then_action],
             ParseParams(then_action, action_params))

\* show_live_ultrasonic_on_lcd: send_command("ULTRA:START") ...
ShowLiveStart ==
    /\ tool.pc = "idle"
    /\ next_id <= MaxRules
    /\ sent' = send_command(sent, <<"ULTRA", ":", "START">>)
    /\ tool' = [tool EXCEPT !.pc = "live_append"]
    /\ UNCHANGED <<pending_actions, arduino_state, monitor_running, mon,
                   reply, fired, cleared, last_removed, next_id, events>>
    /\ UNCHANGED <<conn_vars, display_vars, aux_vars>>

\* ... pending_actions.append({"trigger": "distance_update", ...}) ...
ShowLiveAppend ==
    /\ tool.pc = "live_append"
    /\ pending_actions' =
           Append(pending_actions,
                  [id |-> next_id, trigger |-> "distance_update",
                   action_type |-> "update_lcd_distance",
                   params |-> EmptyDict])
    /\ next_id' = next_id + 1
    /\ tool' = [tool EXCEPT !.pc = "live_line1"]
    /\ UNCHANGED <<arduino_state, monitor_running, mon, reply, sent, fired,
                   cleared, last_removed, events>>
    /\ UNCHANGED <<conn_vars, display_vars, aux_vars>>

\* ... send_command("LCD:LINE1:Distance:") and return
ShowLiveFinish ==
    /\ tool.pc = "live_line1"
    /\ sent' = send_command(sent, <<"LCD", ":", "LINE1", ":", "Distance", ":">>)
    /\ tool' = IdleTool
    /\ reply' = [tool |-> "show_live_ultrasonic_on_lcd", status |-> "set",
                 count |-> 0]
    /\ UNCHANGED <<pending_actions, arduino_state, monitor_running, mon,
                   fired, cleared, last_removed, next_id, events>>
    /\ UNCHANGED <<conn_vars, display_vars, aux_vars>>

\* (ClearCountWithReset is the variant of ClearCount that also resets the
\* telemetry.)
ClearCountWithReset ==
    /\ tool.pc = "idle"
    /\ tool' = [pc |-> "clear", count |-> Len(pending_actions)]
    /\ arduino_state' = [arduino_state EXCEPT !.timer_active = FALSE,
                                              !.timer_remaining = 0]
    /\ UNCHANGED <<pending_actions, monitor_running, mon,
                   reply, sent, fired, cleared, last_removed, next_id, events>>
    /\ UNCHANGED <<conn_vars, display_vars, aux_vars>>

\* clear_all_pending_actions: count = len(pending_actions)
ClearCount ==
    /\ tool.pc = "idle"
    /\ tool' = [pc |-> "clear", count |-> Len(pending_actions)]
    /\ UNCHANGED <<pending_actions, arduino_state, monitor_running, mon,
                   reply, sent, fired, cleared, last_removed, next_id, events>>
    /\ UNCHANGED <<conn_vars, display_vars, aux_vars>>

\* the rules pending_actions.clear() drops
Dropped(list) == list

\* clear_all_pending_actions: pending_actions.clear(); return "Cleared {count}"
ClearClear ==
    /\ tool.pc = "clear"
    /\ LET gone == Dropped(pending_actions)
       IN /\ pending_actions' =
                 SelectSeq(pending_actions,
                           LAMBDA a : \A i \in 1..Len(gone) : gone[i].id # a.id)
          /\ cleared' = cleared \cup {gone[i].id : i \in 1..Len(gone)}
          /\ last_removed' = Len(gone)
    /\ reply' = [tool |-> "clear_all_pending_actions", status |-> "cleared",
                 count |-> tool.count]
    /\ tool' = IdleTool
    /\ UNCHANGED <<arduino_state, monitor_running, mon, sent, fired, next_id,
                   events>>
    /\ UNCHANGED <<conn_vars, display_vars, aux_vars>>


\* ------------------------------------------- registrations of every action
\* the text a custom_command rule is registered with
CustomText == <<"LED", ":", "ON">>

\* (then_action, action_params) of the when_timer_finishes calls: every action
\* kind of execute_action, a default, a target past the display's range, a
\* target without ':' and a kind execute_action does not know
RegisterInputs ==
    { <<"buzzer_beep", <<>>>>,
      <<"start_timer", <<"02", ":", "00">>>>,
      <<"start_timer", <<"00", ":", "75">>>>,
      <<"start_timer", <<"90">>>>,
      <<"led_blink", <<"500">>>>,
      <<"display_message", <<"a", "|", "b">>>>,
      <<"custom_command", CustomText>>,
      <<"servo_sweep", <<>>>> }

\* -------------------------------------------------------- direct commands
\* led_on: send_command("LED:ON") has written the line
led_on ==
    /\ tool.pc = "idle"
    /\ calls < MaxCalls
    /\ calls' = calls + 1
    /\ sent' = send_command(sent, <<"LED", ":", "ON">>)
    /\ tool' = [pc |-> "led_on_respond", count |-> 0]
    /\ UNCHANGED <<pending_actions, arduino_state, monitor_running, mon,
                   reply, fired, cleared, last_removed, next_id, events>>
    /\ UNCHANGED <<conn_vars, display_vars, view, stolen, failed, mon2>>

\* led_on when arduino.write raises: send_command returns "ERROR: ...", which
\* led_on assigns to response and does not look at
LedOnFailed ==
    /\ tool.pc = "idle"
    /\ calls < MaxCalls
    /\ calls' = calls + 1
    /\ failed' = failed \cup {<<"tool", "led_on">>}
    /\ reply' = [tool |-> "led_on", status |-> "ok", count |-> 0]
    /\ UNCHANGED <<pending_actions, arduino_state, monitor_running, mon, tool,
                   sent, fired, cleared, last_removed, next_id, events>>
    /\ UNCHANGED <<conn_vars, display_vars, view, stolen, mon2>>

\* send_command of led_on, after the 50 ms sleep: nothing is waiting, "OK" is
\* returned and the tool returns its text
LedOnNoResponse ==
    /\ tool.pc = "led_on_respond"
    /\ tool' = IdleTool
    /\ reply' = [tool |-> "led_on", status |-> "ok", count |-> 0]
    /\ UNCHANGED <<pending_actions, arduino_state, monitor_running, mon,
                   sent, fired, cleared, last_removed, next_id, events>>
    /\ UNCHANGED <<conn_vars, display_vars, aux_vars>>

\* send_command of led_on, after the 50 ms sleep: a line is waiting and
\* readline() takes it as the response
LedOnReadResponse(line) ==
    /\ tool.pc = "led_on_respond"
    /\ stolen' = Append(stolen, line)
    /\ tool' = IdleTool
    /\ reply' = [tool |-> "led_on", status |-> "ok", count |-> 0]
    /\ UNCHANGED <<pending_actions, arduino_state, monitor_running, mon,
                   sent, fired, cleared, last_removed, next_id, events>>
    /\ UNCHANGED <<conn_vars, display_vars, view, failed, mon2, calls>>

\* lcd_clear: send_command("LCD:CLEAR") has written the line
lcd_clear ==
    /\ tool.pc = "idle"
    /\ calls < MaxCalls
    /\ calls' = calls + 1
    /\ sent' = send_command(sent, <<"LCD", ":", "CLEAR">>)
    /\ tool' = [pc |-> "lcd_clear_respond", count |-> 0]
    /\ UNCHANGED <<pending_actions, arduino_state, monitor_running, mon,
                   reply, fired, cleared, last_removed, next_id, events>>
    /\ UNCHANGED <<conn_vars, display_vars, view, stolen, failed, mon2>>

\* send_command of lcd_clear, after the 50 ms sleep: nothing is waiting, "OK"
\* is returned and the tool returns its text (count and rules are history:
\* the number of lines the monitor had read and the rules that were pending
\* when the call returned)
LcdClearNoResponse ==
    /\ tool.pc = "lcd_clear_respond"
    /\ tool' = IdleTool
    /\ reply' = [tool |-> "lcd_clear", status |-> "ok", count |-> events,
                 rules |-> {pending_actions[i].id :
                               i \in 1..Len(pending_actions)}]
    /\ UNCHANGED <<pending_actions, arduino_state, monitor_running, mon,
                   sent, fired, cleared, last_removed, next_id, events>>
    /\ UNCHANGED <<conn_vars, display_vars, aux_vars>>

\* send_command of lcd_clear, after the 50 ms sleep: a line is waiting and
\* readline() takes it as the response
LcdClearReadResponse(line) ==
    /\ tool.pc = "lcd_clear_respond"
    /\ stolen' = Append(stolen, line)
    /\ tool' = IdleTool
    /\ reply' = [tool |-> "lcd_clear", status |-> "ok", count |-> events,
                 rules |-> {pending_actions[i].id :
                               i \in 1..Len(pending_actions)}]
    /\ UNCHANGED <<pending_actions, arduino_state, monitor_running, mon,
                   sent, fired, cleared, last_removed, next_id, events>>
    /\ UNCHANGED <<conn_vars, display_vars, view, failed, mon2, calls>>

\* ------------------------------------------------- tool calls on the Link
\* (minutes, seconds) of the display_timer calls
DisplayTimerInputs == { <<2, 0>>, <<0, 75>> }

\* display_timer: the range test, then send_command up to its write
display_timer(minutes, seconds) ==
    /\ tool.pc = "idle"
    /\ calls < MaxCalls
    /\ calls' = calls + 1
    /\ IF minutes < 0 \/ minutes > 99 \/ seconds < 0 \/ seconds > 59
       THEN /\ reply' = [tool |-> "display_timer", status |-> "error",
                         count |-> 0]
            /\ UNCHANGED <<sent, tool>>
       ELSE /\ sent' = send_command(sent, <<"TM1637", ":", "COUNTDOWN", ":",
                                           StrOf(minutes * 60 + seconds)>>)
            /\ tool' = [pc |-> "respond", count |-> 0]
            /\ UNCHANGED reply
    /\ UNCHANGED <<pending_actions, arduino_state, monitor_running, mon,
                   fired, cleared, last_removed, next_id, events>>
    /\ UNCHANGED <<conn_vars, display_vars, view, stolen, failed, mon2>>

\* send_command after time.sleep(0.05): in_waiting is 0 and "OK" is returned
SendNoResponse ==
    /\ tool.pc = "respond"
    /\ tool' = IdleTool
    /\ reply' = [tool |-> "display_timer", status |-> "started", count |-> 0]
    /\ UNCHANGED <<pending_actions, arduino_state, monitor_running, mon, sent,
                   fired, cleared, last_removed, next_id, events>>
    /\ UNCHANGED <<conn_vars, display_vars, aux_vars>>

\* send_command after time.sleep(0.05): in_waiting > 0 and readline() takes
\* the next line the device has sent, whatever it is
SendReadResponse(line) ==
    /\ tool.pc = "respond"
    /\ stolen' = Append(stolen, line)
    /\ tool' = IdleTool
    /\ reply' = [tool |-> "display_timer", status |-> "started", count |-> 0]
    /\ UNCHANGED <<pending_actions, arduino_state, monitor_running, mon, sent,
                   fired, cleared, last_removed, next_id, events>>
    /\ UNCHANGED <<conn_vars, display_vars, view, failed, mon2, calls>>

\* ------------------------------------------------------ get_current_status
\* the view with one more value read
Seen(f, value) ==
    [k \in DOMAIN view \cup {f} |-> IF k = f THEN value ELSE view[k]]

\* one read of get_current_status: the guard on the position, the new view
\* and the next position
StatusRead(from, newview, to) ==
    /\ tool.pc = from
    /\ view' = newview
    /\ tool' = [pc |-> to, count |-> 0]
    /\ UNCHANGED <<pending_actions, arduino_state, monitor_running, mon,
                   reply, sent, fired, cleared, last_removed, next_id, events>>
    /\ UNCHANGED <<conn_vars, display_vars, stolen, failed, mon2>>

\* if arduino_state["timer_active"]:  (base and base_events are history: the
\* telemetry and the number of lines read when the call began, -1 when the
\* monitor was in the middle of an update)
get_current_status ==
    /\ calls < MaxCalls
    /\ calls' = calls + 1
    /\ StatusRead("idle",
                  [timer_active |-> arduino_state.timer_active,
                   base |-> arduino_state,
                   base_events |-> IF mon.pc = "update" THEN -1 ELSE events],
                  IF arduino_state.timer_active THEN "status_mins"
                  ELSE "status_clock")

\* mins = arduino_state["timer_remaining"] // 60
StatusMins ==
    /\ StatusRead("status_mins",
                  Seen("mins", arduino_state.timer_remaining \div 60),
                  "status_secs")
    /\ UNCHANGED calls

\* secs = arduino_state["timer_remaining"] % 60
StatusSecs ==
    /\ StatusRead("status_secs",
                  Seen("secs", arduino_state.timer_remaining % 60),
                  "status_clock")
    /\ UNCHANGED calls

\* if arduino_state["clock_time"]:
StatusClock ==
    /\ StatusRead("status_clock",
                  Seen("clock_running", arduino_state.clock_time # NoneValue),
                  IF arduino_state.clock_time # NoneValue
                  THEN "status_clock_text" ELSE "status_distance")
    /\ UNCHANGED calls

\* f"Clock: {arduino_state['clock_time']}"
StatusClockText ==
    /\ StatusRead("status_clock_text",
                  Seen("clock_time", arduino_state.clock_time),
                  "status_distance")
    /\ UNCHANGED calls

\* if arduino_state["distance"] > 0:
StatusDistance ==
    /\ StatusRead("status_distance",
                  Seen("monitoring", arduino_state.distance > 0),
                  IF arduino_state.distance > 0
                  THEN "status_distance_text" ELSE "status_count")
    /\ UNCHANGED calls

\* f"Distance: {arduino_state['distance']:.2f} cm"
StatusDistanceText ==
    /\ StatusRead("status_distance_text",
                  Seen("distance", arduino_state.distance),
                  "status_count")
    /\ UNCHANGED calls

\* f"Pending Conditional Actions: {len(pending_actions)}"
StatusPending ==
    /\ StatusRead("status_count",
                  Seen("count", Len(pending_actions)),
                  "status_list")
    /\ UNCHANGED calls

\* the triggers the loop over pending_actions has a line for
ListedTriggers == {"timer_zero", "time_equals", "distance_less_than"}

\* the lines "  {i}. When ..." of the list: the number i and the rule, for
\* the rules whose trigger has a branch
Listing(list) ==
    LET shown == {i \in 1..Len(list) : list[i].trigger \in ListedTriggers}
        Nth(k) == CHOOSE i \in shown :
                      Cardinality({j \in shown : j <= i}) = k
    IN [k \in 1..Cardinality(shown) |-> [n |-> Nth(k), id |-> list[Nth(k)].id]]

\* for i, action in enumerate(pending_actions, 1): ...  (all is history: the
\* rules pending when the list was read)
StatusList ==
    /\ StatusRead("status_list",
                  [k \in DOMAIN view \cup {"pending", "all"} |->
                      IF k = "pending" THEN Listing(pending_actions)
                      ELSE IF k = "all"
                      THEN [i \in 1..Len(pending_actions) |->
                               pending_actions[i].id]
                      ELSE view[k]],
                  "status_stamp")
    /\ UNCHANGED calls

\* time.time() - arduino_state['last_update'], and the text is returned
StatusStamp ==
    /\ tool.pc = "status_stamp"
    /\ view' = Seen("last_update", arduino_state.last_update)
    /\ tool' = IdleTool
    /\ reply' = [tool |-> "get_current_status", status |-> "ok",
                 count |-> view.count]
    /\ UNCHANGED <<pending_actions, arduino_state, monitor_running, mon,
                   sent, fired, cleared, last_removed, next_id, events>>
    /\ UNCHANGED <<conn_vars, display_vars, stolen, failed, mon2, calls>>

\* =========================================================================
\* master_control.py: ArduinoController and process_command
\* =========================================================================

\* (minutes, seconds) of the 'display timer:MM:SS' commands
CountdownInputs == { <<0, 3>>, <<0, 0>>, <<0, -1>> }

\* the physical display a routine writes to
Slot(kind) == IF kind = "lcd_clock" THEN "LCD" ELSE "TM1637"

\* f"{mins:02d}{secs:02d}" of total_seconds, digit by digit
TimeStr(total_seconds) ==
    LET mins == total_seconds \div 60
        secs == total_seconds % 60
    IN <<mins \div 10, mins % 10, secs \div 10, secs % 10>>

Done(t) == t.pc \in {"done", "cancelled"}

\* main(): connect() succeeded and controller.running = True
DisplayInit ==
    /\ running = TRUE
    /\ clock_active = FALSE
    /\ timer_active = FALSE
    /\ lcd_clock_active = FALSE
    /\ tasks = <<>>
    /\ main = "input"
    /\ stop_left = {}

\* asyncio.create_task(coro): the coroutine has not run yet
NewTask(kind, total) ==
    [kind |-> kind, pc |-> "new", total_seconds |-> total, shown |-> <<>>,
     written |-> FALSE, k |-> 0, beeps |-> 0]

\* main() reads the next command only after the tasks that are ready to start
\* have run to their first await
CanCommand ==
    /\ main = "input"
    /\ \A i \in 1..Len(tasks) : tasks[i].pc # "new"

CanCreate == CanCommand /\ Len(tasks) < MaxTasks

\* 'display clock': stop_timer(); create_task(display_clock())
DisplayClockCmd ==
    /\ CanCreate
    /\ timer_active' = FALSE
    /\ tasks' = Append(tasks, NewTask("clock", 0))
    /\ stop_left' = {}
    /\ UNCHANGED <<running, clock_active, lcd_clock_active, main>>
    /\ UNCHANGED <<conn_vars, server_vars, aux_vars>>

\* 'display timer:MM:SS': stop_clock(); parse; create_task(display_countdown())
DisplayTimerCmd(mins, secs) ==
    /\ CanCreate
    /\ clock_active' = FALSE
    /\ tasks' = Append(tasks, NewTask("countdown", mins * 60 + secs))
    /\ stop_left' = {}
    /\ UNCHANGED <<running, timer_active, lcd_clock_active, main>>
    /\ UNCHANGED <<conn_vars, server_vars, aux_vars>>

\* the tasks of a display slot that have not terminated
Alive(list, slot) ==
    {i \in 1..Len(list) : Slot(list[i].kind) = slot /\ ~Done(list[i])}

\* 'display stop': stop_clock(); stop_timer()
DisplayStopCmd ==
    /\ CanCommand
    /\ clock_active' = FALSE
    /\ timer_active' = FALSE
    /\ stop_left' = Alive(tasks, "TM1637")
    /\ UNCHANGED <<running, lcd_clock_active, tasks, main>>
    /\ UNCHANGED <<conn_vars, server_vars, aux_vars>>

\* 'lcd clock': create_task(lcd_clock())
LcdClockCmd ==
    /\ CanCreate
    /\ tasks' = Append(tasks, NewTask("lcd_clock", 0))
    /\ stop_left' = {}
    /\ UNCHANGED <<running, clock_active, timer_active, lcd_clock_active, main>>
    /\ UNCHANGED <<conn_vars, server_vars, aux_vars>>

\* 'lcd stop': stop_lcd_clock(); await asyncio.sleep(0.1) ...
LcdStopCmd ==
    /\ CanCommand
    /\ lcd_clock_active' = FALSE
    /\ main' = "lcd_stop_sleep"
    /\ stop_left' = {}
    /\ UNCHANGED <<running, clock_active, timer_active, tasks>>
    /\ UNCHANGED <<conn_vars, server_vars, aux_vars>>

\* ... the 0.1 s are over and process_command returns
LcdStopReturn ==
    /\ main = "lcd_stop_sleep"
    /\ main' = "input"
    /\ stop_left' = Alive(tasks, "LCD")
    /\ UNCHANGED <<running, clock_active, timer_active, lcd_clock_active, tasks>>
    /\ UNCHANGED <<conn_vars, server_vars, aux_vars>>

\* 'exit': main() leaves its loop; finally: controller.close()
ExitCmd ==
    /\ CanCommand
    /\ running' = FALSE
    /\ main' = "closed"
    /\ stop_left' = {}
    /\ UNCHANGED <<clock_active, timer_active, lcd_clock_active, tasks>>
    /\ UNCHANGED <<conn_vars, server_vars, aux_vars>>

\* asyncio.run() cancels the tasks that are left when main() has returned
CancelAll ==
    /\ main = "closed"
    /\ main' = "ended"
    /\ tasks' = [i \in 1..Len(tasks) |->
                    IF Done(tasks[i]) THEN tasks[i]
                    ELSE [tasks[i] EXCEPT !.pc = "cancelled"]]
    /\ UNCHANGED <<running, clock_active, timer_active, lcd_clock_active,
                   stop_left>>
    /\ UNCHANGED <<conn_vars, server_vars, aux_vars>>

\* 'display timer:<text>' whose text does not parse: stop_clock() has run when
\* int() or the unpacking raises, and nothing is created
DisplayTimerBadCmd ==
    /\ CanCommand
    /\ clock_active' = FALSE
    /\ stop_left' = {}
    /\ UNCHANGED <<running, timer_active, lcd_clock_active, tasks, main>>
    /\ UNCHANGED <<conn_vars, server_vars, aux_vars>>

\* the number of beeps of the alert burst: for _ in range(3)
BurstBeeps == 3

\* variant of ClockStep whose loop condition is self.running alone
ClockStepIgnoringFlag(i) ==
    /\ i \in 1..Len(tasks)
    /\ tasks[i].kind = "clock"
    /\ tasks[i].pc \in {"new", "sleep"}
    /\ LET active == IF tasks[i].pc = "new" THEN TRUE ELSE clock_active
       IN /\ clock_active' = active
          /\ tasks' = [tasks EXCEPT ![i] =
                 IF running
                 THEN [@ EXCEPT !.pc = "sleep", !.written = TRUE]
                 ELSE [@ EXCEPT !.pc = "done"]]
    /\ UNCHANGED <<running, timer_active, lcd_clock_active, main, stop_left>>
    /\ UNCHANGED <<conn_vars, server_vars, aux_vars>>

\* display_clock, from its start or from its sleep to the next await
ClockStep(i) ==
    /\ i \in 1..Len(tasks)
    /\ tasks[i].kind = "clock"
    /\ tasks[i].pc \in {"new", "sleep"}
    /\ LET active == IF tasks[i].pc = "new" THEN TRUE ELSE clock_active
       IN /\ clock_active' = active
          /\ tasks' = [tasks EXCEPT ![i] =
                 IF active /\ running
                 THEN [@ EXCEPT !.pc = "sleep", !.written = TRUE]
                 ELSE [@ EXCEPT !.pc = "done"]]
    /\ UNCHANGED <<running, timer_active, lcd_clock_active, main, stop_left>>
    /\ UNCHANGED <<conn_vars, server_vars, aux_vars>>

\* variant of CountdownStep that starts the burst at total_seconds == 1
CountdownStepEndsAtOne(i) ==
    /\ i \in 1..Len(tasks)
    /\ tasks[i].kind = "countdown"
    /\ tasks[i].pc \in {"new", "sleep"}
    /\ LET t == tasks[i]
           active == IF t.pc = "new" THEN TRUE ELSE timer_active
       IN IF t.total_seconds >= 0 /\ active /\ running
          THEN /\ timer_active' = active
               /\ tasks' = [tasks EXCEPT ![i] =
                      IF t.total_seconds <= 1
                      THEN [@ EXCEPT !.pc = "burst", !.written = TRUE,
                                     !.shown = Append(@, TimeStr(t.total_seconds)),
                                     !.k = 1, !.beeps = 1]
                      ELSE [@ EXCEPT !.pc = "sleep", !.written = TRUE,
                                     !.shown = Append(@, TimeStr(t.total_seconds)),
                                     !.total_seconds = @ - 1]]
          ELSE /\ timer_active' = FALSE
               /\ tasks' = [tasks EXCEPT ![i].pc = "done"]
    /\ UNCHANGED <<running, clock_active, lcd_clock_active, main, stop_left>>
    /\ UNCHANGED <<conn_vars, server_vars, aux_vars>>

\* display_countdown, from its start or from its 1 s sleep to the next await
CountdownStep(i) ==
    /\ i \in 1..Len(tasks)
    /\ tasks[i].kind = "countdown"
    /\ tasks[i].pc \in {"new", "sleep"}
    /\ LET t == tasks[i]
           active == IF t.pc = "new" THEN TRUE ELSE timer_active
       IN IF t.total_seconds >= 0 /\ active /\ running
          THEN /\ timer_active' = active
               /\ tasks' = [tasks EXCEPT ![i] =
                      IF t.total_seconds = 0
                      THEN [@ EXCEPT !.pc = "burst", !.written = TRUE,
                                     !.shown = Append(@, TimeStr(0)),
                                     !.k = 1, !.beeps = 1]
                      ELSE [@ EXCEPT !.pc = "sleep", !.written = TRUE,
                                     !.shown = Append(@, TimeStr(t.total_seconds)),
                                     !.total_seconds = @ - 1]]
          ELSE /\ timer_active' = FALSE
               /\ tasks' = [tasks EXCEPT ![i].pc = "done"]
    /\ UNCHANGED <<running, clock_active, lcd_clock_active, main, stop_left>>
    /\ UNCHANGED <<conn_vars, server_vars, aux_vars>>

\* display_countdown inside "for _ in range(3)": woken from a 0.5 s sleep; a
\* beep on a closed connection is not sent (send_command returns False)
BurstStep(i) ==
    /\ i \in 1..Len(tasks)
    /\ tasks[i].pc = "burst"
    /\ IF tasks[i].k < BurstBeeps
       THEN /\ tasks' = [tasks EXCEPT ![i].k = @ + 1,
                                      ![i].beeps = IF running THEN @ + 1 ELSE @]
            /\ UNCHANGED timer_active
       ELSE /\ tasks' = [tasks EXCEPT ![i].pc = "done"]
            /\ timer_active' = FALSE
    /\ UNCHANGED <<running, clock_active, lcd_clock_active, main, stop_left>>
    /\ UNCHANGED <<conn_vars, server_vars, aux_vars>>

\* lcd_clock, from its start or from its sleep to the next await
LcdClockStep(i) ==
    /\ i \in 1..Len(tasks)
    /\ tasks[i].kind = "lcd_clock"
    /\ tasks[i].pc \in {"new", "sleep"}
    /\ LET active == IF tasks[i].pc = "new" THEN TRUE ELSE lcd_clock_active
       IN IF running /\ active
          THEN /\ lcd_clock_active' = active
               /\ tasks' = [tasks EXCEPT ![i].pc = "sleep", ![i].written = TRUE]
          ELSE /\ lcd_clock_active' = FALSE
               /\ tasks' = [tasks EXCEPT ![i].pc = "done"]
    /\ UNCHANGED <<running, clock_active, timer_active, main, stop_left>>
    /\ UNCHANGED <<conn_vars, server_vars, aux_vars>>

\* ------------------------------------------------------------ specification
Monitor ==
    \/ \E line \in Lines : MonitorRead(line)
    \/ MonitorUpdate
    \/ MonitorScan
    \/ MonitorEcho
    \/ MonitorExecute
    \/ MonitorRemove

Tools ==
    \/ \E a \in ActionInputs : when_timer_finishes(a[1], a[2])
    \/ \E t \in TargetTimes, a \in ActionInputs : when_time_equals(t, a[1], a[2])
    \/ \E d \in Thresholds, a \in ActionInputs :
           when_distance_less_than(d, a[1], a[2])
    \/ ShowLiveStart
    \/ ShowLiveAppend
    \/ ShowLiveFinish
    \/ ClearCount
    \/ ClearClear

Commands ==
    \/ DisplayClockCmd
    \/ \E c \in CountdownInputs : DisplayTimerCmd(c[1], c[2])
    \/ DisplayTimerBadCmd
    \/ DisplayStopCmd
    \/ LcdClockCmd
    \/ LcdStopCmd
    \/ LcdStopReturn
    \/ ExitCmd
    \/ CancelAll

TaskStep(i) ==
    \/ ClockStep(i)
    \/ CountdownStep(i)
    \/ BurstStep(i)
    \/ LcdClockStep(i)

Routines == \E i \in 1..MaxTasks : TaskStep(i)

\* nothing read, nothing failed, one monitor thread
AuxInit ==
    /\ view = EmptyDict
    /\ stolen = <<>>
    /\ failed = {}
    /\ mon2 = <<>>
    /\ calls = 0

\* module load: arduino_connection = None, and no thread is in get_arduino
ConnInit ==
    /\ arduino_connection = 0
    /\ getting = [c \in Callers |-> [pc |-> "out", got |-> 0, held |-> 0, all |-> {}]]
    /\ opened = 0

Init == ServerInit /\ DisplayInit /\ AuxInit /\ ConnInit

\* arduino_mcp_server.py
Next == Monitor \/ Tools

Spec == Init /\ [][Next]_vars

\* arduino_mcp_server.py with the tool calls that use the Link themselves
LinkTools ==
    \/ \E c \in DisplayTimerInputs : display_timer(c[1], c[2])
    \/ SendNoResponse
    \/ \E line \in Lines : SendReadResponse(line)

\* the registrations that make the monitor send: a start_timer rule and the
\* live distance display
LinkRules ==
    \/ when_timer_finishes("start_timer", <<"02", ":", "00">>)
    \/ ShowLiveStart
    \/ ShowLiveAppend
    \/ ShowLiveFinish

LinkNext == Monitor \/ LinkRules \/ LinkTools

SpecLink == Init /\ [][LinkNext]_vars

\* arduino_mcp_server.py with a failing Link and a stop of the monitor
Faults ==
    \/ MonitorFault
    \/ MonitorEchoFailed
    \/ MonitorExecuteFailed

FaultNext ==
    Monitor \/ Faults \/ LinkRules \/ stop_background_monitor \/ MonitorExit

SpecFault == Init /\ [][FaultNext]_vars

\* arduino_mcp_server.py with the monitor stopped and started again
Lifecycle ==
    \/ stop_background_monitor
    \/ start_background_monitor
    \/ MonitorExit
    \/ \E i \in 1..MaxStarts : Monitor2Exit(i)

LifeNext == Monitor \/ LinkRules \/ Lifecycle

SpecLife == Init /\ [][LifeNext]_vars

\* the monitor thread is a running thread: each of its steps that stays
\* possible is taken, the test of the flag included
LifeFairness ==
    /\ WF_vars(Monitor)
    /\ WF_vars(MonitorExit)
    /\ \A i \in 1..MaxStarts : WF_vars(Monitor2Exit(i))

SpecLifeFair == SpecLife /\ LifeFairness

\* arduino_mcp_server.py with a status reader
StatusReader ==
    \/ get_current_status
    \/ StatusMins
    \/ StatusSecs
    \/ StatusClock
    \/ StatusClockText
    \/ StatusDistance
    \/ StatusDistanceText
    \/ StatusPending
    \/ StatusList
    \/ StatusStamp

StatusNext == Monitor \/ LinkRules \/ StatusReader

SpecStatus == Init /\ [][StatusNext]_vars

\* arduino_mcp_server.py with a failing Link and rules of every trigger of a
\* DISTANCE line and of COUNTDOWN:FINISHED
IsolationNext ==
    \/ Monitor
    \/ Faults
    \/ LinkRules
    \/ when_distance_less_than(1000, "buzzer_beep", <<"500">>)

SpecIsolation == Init /\ [][IsolationNext]_vars

\* arduino_mcp_server.py with registrations of every action kind
Registrations ==
    \E a \in RegisterInputs : when_timer_finishes(a[1], a[2])

DirectCommands ==
    \/ led_on
    \/ LedOnFailed
    \/ LedOnNoResponse
    \/ \E line \in Lines : LedOnReadResponse(line)

RegisterNext ==
    \/ Monitor
    \/ Registrations
    \/ ShowLiveStart
    \/ ShowLiveAppend
    \/ ShowLiveFinish

SpecRegister == Init /\ [][RegisterNext]_vars

\* arduino_mcp_server.py with a direct command on a Link that can fail, and a
\* registration of an action kind execute_action does not know
CommandNext ==
    \/ Monitor
    \/ LinkRules
    \/ when_timer_finishes("servo_sweep", <<>>)
    \/ DirectCommands

SpecCommand == Init /\ [][CommandNext]_vars

\* arduino_mcp_server.py with the live distance display, lcd_clear and
\* clear_all_pending_actions
\* the lines that can be waiting when lcd_clear reads its response: the
\* device's answer or a distance report
EchoResponses == { <<"OK">>, <<"DISTANCE", ":", "5.00">> }

EchoTools ==
    \/ ShowLiveStart
    \/ ShowLiveAppend
    \/ ShowLiveFinish
    \/ lcd_clear
    \/ LcdClearNoResponse
    \/ \E line \in EchoResponses : LcdClearReadResponse(line)
    \/ ClearCount
    \/ ClearClear

EchoNext ==
    \/ Monitor
    \/ EchoTools
    \/ when_distance_less_than(1000, "buzzer_beep", <<"500">>)

SpecEcho == Init /\ [][EchoNext]_vars

\* master_control.py with countdowns only: 'display timer:MM:SS',
\* 'display stop' and 'exit'
CountdownCommands ==
    \/ \E c \in CountdownInputs : DisplayTimerCmd(c[1], c[2])
    \/ DisplayStopCmd
    \/ ExitCmd
    \/ CancelAll

CountdownRoutines == \E i \in 1..MaxTasks : CountdownStep(i) \/ BurstStep(i)

CountdownNext == CountdownCommands \/ CountdownRoutines

SpecCountdown == Init /\ [][CountdownNext]_vars

\* arduino_mcp_server.py with the monitor stopped and started again, both
\* threads followed through their dispatch
Monitor2 ==
    \E i \in 1..MaxStarts :
        \/ \E line \in Lines : Monitor2Read(i, line)
        \/ Monitor2Update(i)
        \/ Monitor2Scan(i)
        \/ Monitor2Echo(i)
        \/ Monitor2Execute(i)
        \/ Monitor2Remove(i)

ThreadsNext == Monitor \/ Monitor2 \/ LinkRules \/ Lifecycle

SpecThreads == Init /\ [][ThreadsNext]_vars

\* arduino_mcp_server.py with the lines of the timer category and timer_zero
\* rules
TimerNext ==
    \/ \E line \in TimerLines : MonitorRead(line)
    \/ MonitorUpdate
    \/ MonitorScan
    \/ MonitorExecute
    \/ MonitorRemove
    \/ \E a \in ActionInputs : when_timer_finishes(a[1], a[2])

SpecTimer == Init /\ [][TimerNext]_vars

\* arduino_mcp_server.py: get_arduino called by the monitor thread and by a
\* tool call
get_arduino ==
    \E c \in Callers :
        \/ GetArduinoTest(c)
        \/ GetArduinoOpen(c)
        \/ GetArduinoOpenFails(c)
        \/ GetArduinoReturn(c)

ConnectNext ==
    \/ get_arduino
    \/ MonitorIterationEnds
    \/ UltrasonicReadSends
    \/ UltrasonicReadEnds

SpecConnect == Init /\ [][ConnectNext]_vars

\* master_control.py
DisplayNext == Commands \/ Routines

SpecDisplay == Init /\ [][DisplayNext]_vars

\* the event loop runs every task that is ready: a task whose sleep is over is
\* resumed, and so is main() after its 0.1 s
DisplayFairness ==
    /\ \A i \in 1..MaxTasks : WF_vars(TaskStep(i))
    /\ WF_vars(LcdStopReturn)
    /\ WF_vars(CancelAll)

SpecDisplayFair == SpecDisplay /\ DisplayFairness

\* =========================================================================
\* Properties
\* =========================================================================

\* ----------------------------------------------------------------- helpers
Ids(list) == {list[i].id : i \in 1..Len(list)}
IdSeq(list) == [i \in 1..Len(list) |-> list[i].id]
Firings == {fired[i] : i \in 1..Len(fired)}
OfTrigger(list, trigger) == SelectSeq(list, LAMBDA a : a.trigger = trigger)

\* the monitor is inside a "for action in pending_actions[:]" loop
InLoop == mon.pc \in {"scan", "body", "remove"}
LoopTrigger == Loops(mon.line)[mon.lp]

\* this step is a remove() that raises: the dispatch is cut short
Aborts ==
    /\ mon.pc = "remove"
    /\ ~HasEqual(pending_actions, mon.snap[mon.idx])
    /\ mon' # mon

\* this step ends the current loop after its last element
LoopCompletes ==
    /\ InLoop
    /\ ~Aborts
    /\ \/ mon'.pc = "loop"
       \/ mon'.pc = "scan" /\ mon'.lp = mon.lp + 1

\* the copy of pending_actions the current loop runs over
LoopSnapshot == IF mon.pc = "scan" THEN pending_actions ELSE mon.snap

\* the rules executed for the event being dispatched, in execution order
FiredThisEvent(log) == SelectSeq(log, LAMBDA f : f.event = events)

\* raw tests on a device line, written out from the protocol
IsDistanceLine(line) == Len(line) >= 3 /\ line[1] = "DISTANCE" /\ line[2] = ":"
CmOf(line) ==
    CASE line[3] = "5.00" -> 500
      [] line[3] = "10" -> 1000
      [] line[3] = "12.50" -> 1250
      [] OTHER -> -1
IsClockLine(line) ==
    Len(line) >= 4 /\ SubSeq(line, 1, 4) = <<"CLOCK", ":", "LCD", ":">>
ClockOf(line) == SubSeq(line, 5, Len(line))
IsFinishedLine(line) ==
    Len(line) >= 3 /\ SubSeq(line, 1, 3) = <<"COUNTDOWN", ":", "FINISHED">>

\* what a line must be for a one-shot rule to be due
Due(rule, line) ==
    CASE rule.trigger = "timer_zero" -> IsFinishedLine(line)
      [] rule.trigger = "time_equals" ->
             IsClockLine(line) /\ ClockOf(line) = rule.target_time
      [] rule.trigger = "distance_less_than" ->
             /\ IsDistanceLine(line) /\ CmOf(line) >= 0
             /\ CmOf(line) < rule.target_distance
      [] OTHER -> FALSE

\* every execution of a rule of this trigger happened on a line it was due on
FiredOnlyWhenDue(trigger) ==
    \A f \in Firings : f.action.trigger = trigger => Due(f.action, f.line)

\* no rule of this trigger was executed twice
FiredAtMostOnce(trigger) ==
    \A i, j \in 1..Len(fired) :
        /\ fired[i].action.trigger = trigger
        /\ fired[i].action.id = fired[j].action.id
        => i = j

\* when the loop for this trigger has run to its end, every rule of its
\* snapshot that was due on the line has been executed for this event
LoopFiresAllDue(trigger) ==
    LoopCompletes /\ LoopTrigger = trigger =>
        \A j \in 1..Len(LoopSnapshot) :
            LET rule == LoopSnapshot[j]
            IN rule.trigger = trigger /\ Due(rule, mon.line) =>
                   \E f \in {fired'[i] : i \in 1..Len(fired')} :
                       f.action.id = rule.id /\ f.event = events

\* a rule of this trigger leaves pending_actions only through
\* clear_all_pending_actions or through the monitor's remove() while a line
\* the rule is due on is being dispatched
LeavesOnlyWhenDue(trigger) ==
    \A i \in 1..Len(pending_actions) :
        LET rule == pending_actions[i]
        IN rule.trigger = trigger /\ rule.id \notin Ids(pending_actions') =>
               \/ rule.id \in cleared'
               \/ mon.pc = "remove" /\ Due(rule, mon.line)

\* a registration only appends: nothing is executed and nothing is sent
RegistrationFiresNothing ==
    next_id' # next_id /\ tool.pc = "idle" => fired' = fired /\ sent' = sent

Beep500 == <<"BUZZER", ":", "BEEP", ":", "500">>

IsBeep500(action) ==
    /\ action.action_type = "buzzer_beep"
    /\ "duration" \in DOMAIN action.params
    /\ action.params.duration = 500

\* one BUZZER:BEEP:500 on the Link for each execution of a buzzer_beep/500 rule
BeepsAreFirings ==
    Len(SelectSeq(sent, LAMBDA c : c = Beep500))
        = Len(SelectSeq(fired, LAMBDA f : IsBeep500(f.action)))

\* when the timer_zero loop has run to its end, no timer_zero rule of its
\* snapshot is pending any more
NoTimerZeroLeft ==
    LoopCompletes /\ LoopTrigger = "timer_zero" =>
        \A j \in 1..Len(LoopSnapshot) :
            LoopSnapshot[j].trigger = "timer_zero" =>
                LoopSnapshot[j].id \notin Ids(pending_actions')

\* C3: timer_zero rules are executed only on a COUNTDOWN:FINISHED line (not on
\* TIMER:REMAINING:0 or any other line); one such line executes every
\* timer_zero rule of the snapshot once and leaves none of them pending; a
\* when_timer_finishes("buzzer_beep", "500") rule puts exactly one
\* BUZZER:BEEP:500 on the Link per execution.
C3_TimerZeroFiresOnFinished ==
    /\ [](/\ FiredOnlyWhenDue("timer_zero")
          /\ FiredAtMostOnce("timer_zero")
          /\ BeepsAreFirings)
    /\ [][/\ LoopFiresAllDue("timer_zero")
          /\ NoTimerZeroLeft
          /\ LeavesOnlyWhenDue("timer_zero")]_vars

\* one rule registered, one COUNTDOWN:FINISHED dispatched: one beep sent, no
\* rule pending
C3_OneBeepNonePending ==
    /\ mon = IdleMon
    /\ events = 1
    /\ next_id = 2
    /\ Len(fired) = 1
    /\ fired[1].action.trigger = "timer_zero"
    /\ IsFinishedLine(fired[1].line)
    /\ sent = <<Beep500>>
    /\ pending_actions = <<>>
    /\ cleared = {}

\* ------------------------------------------------------------------- C4
\* C4: clear_all_pending_actions reports a count equal to the number of rules
\* it removed.
C4_ReportedCountIsRemoved ==
    reply.status = "cleared" => reply.count = last_removed

\* ------------------------------------------------------------------- C5
\* pending_actions keeps the order in which the rules were appended
AppendOrderKept ==
    \A i, j \in 1..Len(pending_actions) :
        i < j => pending_actions[i].id < pending_actions[j].id

\* no rule at all was executed twice
NoRuleFiredTwice ==
    \A i, j \in 1..Len(fired) :
        fired[i].action.id = fired[j].action.id => i = j

\* when a one-shot loop has run to its end, the rules executed for the event
\* are exactly the due rules of the snapshot, in snapshot order
FiresDueInOrder ==
    LoopCompletes /\ LoopTrigger # "distance_update" =>
        [i \in 1..Len(FiredThisEvent(fired')) |->
            FiredThisEvent(fired')[i].action.id] =
        [i \in 1..Len(SelectSeq(LoopSnapshot, LAMBDA a : Due(a, mon.line))) |->
            SelectSeq(LoopSnapshot, LAMBDA a : Due(a, mon.line))[i].id]

\* a dispatch is cut short only after clear_all_pending_actions dropped the
\* rules still to be examined
CutShortOnlyByClear ==
    Aborts => \A j \in mon.idx..Len(mon.snap) : mon.snap[j].id \in cleared

\* C5: rules registered in any interleaving with the monitor and then met by
\* one event that matches all of them are all executed, each exactly once, in
\* the order they were appended; none is lost or duplicated.
C5_AllDueRulesFireInOrder ==
    /\ [](AppendOrderKept /\ NoRuleFiredTwice)
    /\ [][FiresDueInOrder /\ CutShortOnlyByClear]_vars

\* two rules executed for the same event, first appended first, none pending
C5_TwoFiredInOrder ==
    /\ mon = IdleMon
    /\ Len(fired) = 2
    /\ fired[1].event = fired[2].event
    /\ fired[1].action.id = 1
    /\ fired[2].action.id = 2
    /\ pending_actions = <<>>
    /\ cleared = {}

\* ------------------------------------------------------- display routines
\* the stop signal of a routine: its *_active flag
Flag(kind) ==
    CASE kind = "clock" -> clock_active
      [] kind = "countdown" -> timer_active
      [] OTHER -> lcd_clock_active

\* task i sleeps between two refreshes and will write again when it wakes
WillWrite(i) ==
    /\ tasks[i].pc = "sleep"
    /\ Flag(tasks[i].kind)
    /\ running

\* ------------------------------------------------------------------- C6
\* C6: when a routine is started on a slot that has a running routine, the
\* old routine has terminated before the new one performs its first write.
C6_OldStoppedBeforeFirstWrite ==
    \A i, j \in 1..Len(tasks) :
        /\ i < j
        /\ Slot(tasks[i].kind) = Slot(tasks[j].kind)
        /\ tasks[j].written
        => Done(tasks[i])

\* ------------------------------------------------------------------- C7
\* C7: in every reachable state at most one task per display slot is live
\* and about to write.
C7_AtMostOneWriterPerSlot ==
    \A slot \in {"TM1637", "LCD"} :
        Cardinality({i \in 1..Len(tasks) :
                        Slot(tasks[i].kind) = slot /\ WillWrite(i)}) <= 1

\* ------------------------------------------------------------------- C8
Values3 == << <<0, 0, 0, 3>>, <<0, 0, 0, 2>>, <<0, 0, 0, 1>>, <<0, 0, 0, 0>> >>

\* a countdown that was started with (0, 3) and has written
Started3(t) ==
    t.kind = "countdown" /\ t.shown # <<>> /\ t.shown[1] = <<0, 0, 0, 3>>

\* the countdown went through the whole burst and returned
EndedByBurst(t) == t.pc = "done" /\ t.k = 3

\* what a (0, 3) countdown has written is a prefix of 0003 0002 0001 0000; it
\* is all four values once the burst has begun; and a countdown that went
\* through the burst on an open connection has sent three beeps
CountdownValues ==
    \A i \in 1..Len(tasks) :
        Started3(tasks[i]) =>
            /\ Len(tasks[i].shown) <= 4
            /\ tasks[i].shown = SubSeq(Values3, 1, Len(tasks[i].shown))
            /\ tasks[i].pc = "burst" \/ tasks[i].k > 0 =>
                   tasks[i].shown = Values3
            /\ EndedByBurst(tasks[i]) /\ running => tasks[i].beeps = 3

\* a countdown leaves its counting loop before zero only when timer_active or
\* running was found False
EndsEarlyOnlyWhenStopped ==
    \A i \in 1..Len(tasks) :
        /\ tasks[i].kind = "countdown"
        /\ tasks[i].pc = "sleep"
        /\ tasks'[i].pc \in {"done", "cancelled"}
        => ~(timer_active /\ running)

C9_StoppedWhenStopReturns == stop_left = {}

\* ------------------------------------------------------------------ C10
\* task i sleeps and its stop signal is set
Signalled(i) ==
    /\ i \in 1..Len(tasks)
    /\ tasks[i].pc = "sleep"
    /\ ~(Flag(tasks[i].kind) /\ running)

\* the next step of a signalled task ends it, with no write
SignalledStepEnds ==
    \A i \in 1..Len(tasks) :
        Signalled(i) /\ tasks'[i] # tasks[i] =>
            /\ Done(tasks'[i])
            /\ tasks'[i].shown = tasks[i].shown

C11_DispatchIsExclusive ==
    /\ mon.pc = "body" => mon.snap[mon.idx].id \notin cleared
    /\ mon.pc = "remove" => mon.snap[mon.idx].id \in Ids(pending_actions)

\* ------------------------------------------------------------------ C12
\* C12: access to the Link is mutually exclusive: while a tool call is inside
\* send_command, between its write and its response read, the monitor thread
\* neither reads a line from the Link nor writes a command to it.
C12_LinkAccessIsExclusive ==
    [][tool.pc = "respond" => events' = events /\ sent' = sent]_vars

\* ------------------------------------------------------------------ C13
\* C13: no status line of the device is consumed by the response read of
\* send_command: every line it takes is of no category the monitor handles.
C13_NoStatusLineStolen ==
    \A i \in 1..Len(stolen) :
        /\ ~IsDistanceLine(stolen[i])
        /\ ~IsClockLine(stolen[i])
        /\ ~IsFinishedLine(stolen[i])
        /\ ~(Len(stolen[i]) >= 3 /\ SubSeq(stolen[i], 1, 3) = <<"TIMER", ":", "REMAINING">>)

\* ------------------------------------------------------------------ C14
\* the telemetry fields of the line's category, and last_update, hold the
\* values of the line read as event number now
FieldsHold(line, now) ==
    /\ IsFinishedLine(line) =>
           /\ arduino_state.timer_remaining = 0
           /\ arduino_state.timer_active = FALSE
    /\ IsClockLine(line) => arduino_state.clock_time = ClockOf(line)
    /\ IsDistanceLine(line) => arduino_state.distance = CmOf(line)
    /\ arduino_state.last_update = now

\* C14: arduino_state is updated before any rule is evaluated for an event:
\* from the moment the monitor takes the copy of pending_actions for a line
\* until its last rule is removed, and so whenever a rule action is executed,
\* the telemetry fields of the line's category and last_update hold the
\* line's values.
C14_StateUpdatedBeforeRules == InLoop => FieldsHold(mon.line, events)

\* a rule has just been executed for the second line read, a DISTANCE:5.00,
\* and distance and last_update are those of that line
C14_ExecutedWithFreshState ==
    /\ mon.pc = "remove"
    /\ events = 2
    /\ mon.line = <<"DISTANCE", ":", "5.00">>
    /\ arduino_state.distance = 500
    /\ arduino_state.last_update = 2
    /\ Len(fired) >= 1
    /\ fired[Len(fired)].event = 2

\* ------------------------------------------------------------------ C15
IsTimerLine(line) ==
    Len(line) >= 5 /\ SubSeq(line, 1, 4) = <<"TIMER", ":", "REMAINING", ":">>
SecondsOf(line) ==
    CASE line[5] = "5" -> 5
      [] line[5] = "0" -> 0
      [] OTHER -> -1

\* the values the line read as event number now gives to the telemetry
\* fields of its category, as a set of <<field, value>> pairs
Carried(line, now) ==
    IF IsTimerLine(line)
    THEN {<<"timer_remaining", SecondsOf(line)>>, <<"timer_active", TRUE>>,
          <<"last_update", now>>}
    ELSE IF IsFinishedLine(line)
    THEN {<<"timer_remaining", 0>>, <<"timer_active", FALSE>>,
          <<"last_update", now>>}
    ELSE IF IsClockLine(line)
    THEN {<<"clock_time", ClockOf(line)>>, <<"last_update", now>>}
    ELSE IF IsDistanceLine(line)
    THEN {<<"distance", CmOf(line)>>, <<"last_update", now>>}
    ELSE {}

\* a telemetry field changes only in a step of the monitor, and only to the
\* value the line being handled carries for it
OnlyLinesWriteState ==
    \A f \in DOMAIN arduino_state :
        arduino_state'[f] # arduino_state[f] =>
            /\ mon.pc = "update"
            /\ mon' # mon
            /\ <<f, arduino_state'[f]>> \in Carried(mon.line, events)

\* when the monitor has made the last assignment for a line, every field of
\* the line's category holds the line's value
LineFullyStored ==
    mon.pc = "update" /\ mon'.pc # "update" =>
        \A p \in Carried(mon.line, events) : arduino_state'[p[1]] = p[2]

AfterUpdate ==
    IF mon.pc # "update" THEN arduino_state
    ELSE [f \in DOMAIN arduino_state |->
             IF \E p \in Carried(mon.line, events) : p[1] = f
             THEN (CHOOSE p \in Carried(mon.line, events) : p[1] = f)[2]
             ELSE arduino_state[f]]

\* every value in the view is the one get_current_status derives from state
Agrees(state) ==
    /\ view.timer_active = state.timer_active
    /\ "mins" \in DOMAIN view => view.mins = state.timer_remaining \div 60
    /\ "secs" \in DOMAIN view => view.secs = state.timer_remaining % 60
    /\ view.clock_running = (state.clock_time # NoneValue)
    /\ "clock_time" \in DOMAIN view => view.clock_time = state.clock_time
    /\ view.monitoring = (state.distance > 0)
    /\ "distance" \in DOMAIN view => view.distance = state.distance
    /\ view.last_update = state.last_update

\* C16: get_current_status never reports a partial telemetry update.  For a
\* call during which the monitor read at most one line: the values reported
\* are all those of the telemetry before the event or all those after it.
C16_NoPartialUpdateSeen ==
    /\ reply.tool = "get_current_status"
    /\ tool.pc = "idle"
    /\ view.base_events >= 0
    /\ events <= view.base_events + 1
    => Agrees(view.base) \/ Agrees(AfterUpdate)

\* ------------------------------------------------------------------ C17
\* a step of the monitor that starts and ends at the top of its loop and in
\* which a line was dropped or an error was caught
DropsOrCatches ==
    /\ mon.pc = "loop"
    /\ mon'.pc = "loop"
    /\ events' # events \/ failed' # failed

\* C17: a failure never ends the ingestion loop.  A connection or read error
\* and a malformed line leave arduino_state and pending_actions as they
\* were, and the monitor thread has ended only when monitor_running is False.
C17_FailureIsContained ==
    /\ [][DropsOrCatches => /\ arduino_state' = arduino_state
                            /\ pending_actions' = pending_actions
                            /\ monitor_running' = monitor_running]_vars
    /\ [](mon.pc = "stopped" => ~monitor_running)

\* a Link error before the first line, a first line that was dropped, then
\* COUNTDOWN:FINISHED handled as usual: stored, and the timer rule executed
C17_ProcessedAfterFailure ==
    /\ <<"link", 0>> \in failed
    /\ events = 2
    /\ monitor_running
    /\ mon = IdleMon
    /\ arduino_state = [timer_remaining |-> 0, timer_active |-> FALSE,
                        clock_time |-> NoneValue, distance |-> 0,
                        last_update |-> 2]
    /\ Len(fired) = 1
    /\ fired[1].event = 2
    /\ fired[1].line = <<"COUNTDOWN", ":", "FINISHED">>
    /\ pending_actions = <<>>

\* ------------------------------------------------------------------ C20
\* the entries of fired for the rule id
FiringsOf(id) == {i \in 1..Len(fired) : fired[i].action.id = id}

\* C20: a matched one-shot rule whose command could not be sent is consumed.
\* It stays in pending_actions only until the remove that follows its
\* execute_action, it has been executed once and is not executed again, and
\* the step in which the send fails leaves the monitor thread running.
C20_FailedSendConsumesRule ==
    /\ [](\A f \in failed : f[1] = "send" =>
            /\ f[2] \in Ids(pending_actions) =>
                   mon.pc = "remove" /\ mon.snap[mon.idx].id = f[2]
            /\ Cardinality(FiringsOf(f[2])) = 1)
    /\ [][failed' # failed =>
            mon'.pc # "stopped" /\ monitor_running' = monitor_running]_vars

\* the start_timer rule matched the first COUNTDOWN:FINISHED, its command did
\* not reach the Link, the rule is gone, and the second COUNTDOWN:FINISHED was
\* stored without a second execution
C20_ConsumedWithoutRetry ==
    /\ failed = {<<"send", 1>>}
    /\ pending_actions = <<>>
    /\ sent = <<>>
    /\ Len(fired) = 1
    /\ fired[1].event = 1
    /\ fired[1].action.id = 1
    /\ events = 2
    /\ mon = IdleMon
    /\ monitor_running
    /\ arduino_state = [timer_remaining |-> 0, timer_active |-> FALSE,
                        clock_time |-> NoneValue, distance |-> 0,
                        last_update |-> 2]

\* ------------------------------------------------------------------ C18
\* a step in which the thread that has ended stays ended
StaysStopped == mon.pc = "stopped" /\ mon'.pc = "stopped"

\* C18: once stop_background_monitor() has set the flag to False the monitor
\* thread leaves its loop, and a thread that has left makes no change to
\* arduino_state, removes no rule, reads no line and executes no action.
C18_StopEndsTheMonitor ==
    /\ (~monitor_running) ~> (mon.pc = "stopped")
    /\ [][StaysStopped => /\ arduino_state' = arduino_state
                          /\ Len(pending_actions') >= Len(pending_actions)
                          /\ events' = events
                          /\ fired' = fired]_vars

\* ------------------------------------------------------------------ C19
\* the monitor threads that have not ended
LiveThreads ==
    (IF mon.pc # "stopped" THEN 1 ELSE 0)
    + Cardinality({i \in 1..Len(mon2) : mon2[i].pc # "stopped"})

\* C19: whatever start_background_monitor() and stop_background_monitor()
\* calls were made, at most one monitor thread is alive.
C19_AtMostOneMonitorThread == LiveThreads <= 1

\* ------------------------------------------------------------------ C21
\* this step is a failed send of the monitor, for a one-shot rule or for the
\* distance echo
SendFails == \E f \in failed' \ failed : f[1] \in {"send", "echo"}

\* after a failed send the monitor is still in the dispatch of the event: at
\* the remove of the rule, at the next echo rule, or at the next loop of the
\* branch
GoesOnAfterFailure ==
    SendFails => mon'.pc \in {"remove", "body", "scan"} /\ mon'.line = mon.line

\* when a one-shot loop has run to its end, every due rule of its snapshot
\* has been executed for the event, whichever sends failed
AllDueExecuted ==
    LoopCompletes /\ LoopTrigger # "distance_update" =>
        \A j \in 1..Len(LoopSnapshot) :
            Due(LoopSnapshot[j], mon.line) =>
                \E i \in 1..Len(fired') :
                    /\ fired'[i].action.id = LoopSnapshot[j].id
                    /\ fired'[i].event = events

\* nothing done for a rule is taken back: executions and commands written are
\* only added to, and a rule that was executed and removed does not return
NothingUndone ==
    /\ Len(fired') >= Len(fired) /\ SubSeq(fired', 1, Len(fired)) = fired
    /\ Len(sent') >= Len(sent) /\ SubSeq(sent', 1, Len(sent)) = sent
    /\ \A i \in 1..Len(fired) :
           fired[i].action.id \notin Ids(pending_actions) =>
               fired[i].action.id \notin Ids(pending_actions')

\* C21: rules matching the same event fire independently.  A failed send of
\* one rule's action, or a failed distance-echo write, does not end the
\* dispatch of the event: the other due rules are still executed, and what
\* was done for an earlier rule is not taken back.
C21_FailuresAreIsolated ==
    [][GoesOnAfterFailure /\ AllDueExecuted /\ NothingUndone]_vars

\* one DISTANCE:5.00 line with the echo rule and a distance rule pending: the
\* echo write failed, the distance rule was still executed and its beep sent
C21_FiredAfterFailedEcho ==
    /\ <<"echo", events>> \in failed
    /\ mon = IdleMon
    /\ Len(fired) = 1
    /\ fired[1].event = events
    /\ fired[1].action.trigger = "distance_less_than"
    /\ fired[1].line = <<"DISTANCE", ":", "5.00">>
    /\ sent[Len(sent)] = <<"BUZZER", ":", "BEEP", ":", "500">>
    /\ \A i \in 1..Len(sent) : sent[i][3] # "LINE2" \/ sent[i][1] # "LCD"
    /\ Ids(pending_actions) = {1}

\* two timer rules on one COUNTDOWN:FINISHED: the first send failed, the
\* second rule was executed and sent, both are removed
C21_SecondFiredAfterFirstFailed ==
    /\ failed = {<<"send", 1>>}
    /\ mon = IdleMon
    /\ Len(fired) = 2
    /\ fired[1].action.id = 1 /\ fired[2].action.id = 2
    /\ fired[1].event = fired[2].event
    /\ sent = << <<"TM1637", ":", "COUNTDOWN", ":", "120">> >>
    /\ pending_actions = <<>>

\* ------------------------------------------------------------------ C22
\* C22: a registration whose start_timer target is outside what the display
\* can address (minutes 0-99, seconds 0-59) queues no rule.
C22_OutOfRangeTimerNotQueued ==
    \A i \in 1..Len(pending_actions) :
        pending_actions[i].action_type = "start_timer" =>
            /\ pending_actions[i].params.minutes \in 0..99
            /\ pending_actions[i].params.seconds \in 0..59

\* ------------------------------------------------------------------ C23
\* the names of the three registration tools
WhenTools ==
    {"when_timer_finishes", "when_time_equals", "when_distance_less_than"}

\* this step is a registration call returning an error result
RegistrationRejected ==
    /\ reply' # reply
    /\ reply'.tool \in WhenTools
    /\ reply'.status = "error"

\* C23: a registration call that returns an error result leaves
\* pending_actions and arduino_state as they were and writes nothing to the
\* Link.
C23_RejectedRegistrationChangesNothing ==
    [][RegistrationRejected => /\ pending_actions' = pending_actions
                               /\ arduino_state' = arduino_state
                               /\ sent' = sent
                               /\ fired' = fired]_vars

\* a line was stored and a rule queued, then when_time_equals was called with
\* a target that is not DD:DD:DD: the rule and the telemetry are as before
C23_RejectedWithRulePending ==
    /\ reply = [tool |-> "when_time_equals", status |-> "error", count |-> 0]
    /\ tool = IdleTool
    /\ Len(pending_actions) = 1
    /\ next_id = 2
    /\ events = 1
    /\ arduino_state.distance = 500
    /\ arduino_state.last_update = 1
    /\ mon = IdleMon
    /\ sent = <<>>

\* ------------------------------------------------------------------ C24
\* the action kinds execute_action and the distance echo know
KnownKinds ==
    {"buzzer_beep", "start_timer", "led_blink", "display_message",
     "custom_command", "update_lcd_distance"}

\* C24: a command or registration that fails is reported as a failure.
\* led_on reports success only when LED:ON was written to the Link, and no
\* rule of an unknown action kind is queued.
C24_FailureIsReported ==
    /\ reply.tool = "led_on" /\ reply.status = "ok" =>
           <<"tool", "led_on">> \notin failed
    /\ \A i \in 1..Len(pending_actions) :
           pending_actions[i].action_type \in KnownKinds

\* ------------------------------------------------------------------ C28
\* decimal text of the numbers the registered actions carry
Digits(n) ==
    CASE n = 75 -> "75"
      [] n = 120 -> "120"
      [] n = 500 -> "500"
      [] n = 1000 -> "1000"
      [] OTHER -> "none"

\* the Link lines that belong to a rule, from the action it was registered
\* with (a custom_command rule is registered with CustomText only)
CommandsOf(rule) ==
    CASE rule.action_type = "buzzer_beep" ->
             << <<"BUZZER", ":", "BEEP", ":", Digits(rule.params.duration)>> >>
      [] rule.action_type = "start_timer" ->
             << <<"TM1637", ":", "COUNTDOWN", ":",
                  Digits(60 * rule.params.minutes + rule.params.seconds)>> >>
      [] rule.action_type = "led_blink" ->
             << <<"LED", ":", "BLINK", ":", Digits(rule.params.interval)>> >>
      [] rule.action_type = "display_message" ->
             << <<"LCD", ":", "LINE1", ":">> \o rule.params.line1,
                <<"LCD", ":", "LINE2", ":">> \o rule.params.line2 >>
      [] rule.action_type = "custom_command" -> << CustomText >>
      [] OTHER -> << >>

\* C28: firing a rule writes to the Link exactly the command lines of the
\* action it was registered with, in order.
C28_FiringSendsRegisteredCommand ==
    [][Len(fired') = Len(fired) + 1 =>
          sent' = sent \o CommandsOf(fired'[Len(fired')].action)]_vars

\* ------------------------------------------------------------------ C29
\* this step is a when_* call
WhenStep ==
    /\ tool.pc = "idle"
    /\ tool'.pc = "idle"
    /\ next_id' # next_id \/ (reply' # reply /\ reply'.tool \in WhenTools)

\* this step is one of the two statements of clear_all_pending_actions
ClearStep ==
    \/ tool.pc = "idle" /\ tool'.pc = "clear"
    \/ tool.pc = "clear" /\ tool'.pc = "idle"

\* C29: the when_* calls and clear_all_pending_actions write nothing to the
\* Link and leave arduino_state and the monitor as they were; they change
\* only the rule list.
C29_RegistrationTouchesOnlyRules ==
    [][WhenStep \/ ClearStep => /\ sent' = sent
                                /\ arduino_state' = arduino_state
                                /\ fired' = fired
                                /\ events' = events
                                /\ mon' = mon
                                /\ monitor_running' = monitor_running]_vars

\* the timer is running (TIMER:REMAINING:5 stored), a rule was registered
\* and then cleared: the telemetry is that of the line, nothing was sent
C29_ClearedWithTimerRunning ==
    /\ reply = [tool |-> "clear_all_pending_actions", status |-> "cleared",
                count |-> 1]
    /\ cleared = {1}
    /\ pending_actions = <<>>
    /\ arduino_state = [timer_remaining |-> 5, timer_active |-> TRUE,
                        clock_time |-> NoneValue, distance |-> 0,
                        last_update |-> 1]
    /\ sent = <<>>
    /\ fired = <<>>

\* ------------------------------------------------------------------ C25
\* the ids of the pending distance-echo rules
EchoRules(list) == {list[i].id : i \in {j \in 1..Len(list) :
                                         list[j].trigger = "distance_update"}}

\* the text of the echo for a DISTANCE line
EchoText(line) ==
    CASE CmOf(line) = 500 -> "5.00"
      [] CmOf(line) = 1000 -> "10.00"
      [] CmOf(line) = 1250 -> "12.50"
      [] OTHER -> "none"

\* the body of the echo loop writes one LCD:LINE2 line with the distance
EchoWritesOne ==
    mon.pc = "body" /\ mon.snap[mon.idx].trigger = "distance_update"
    /\ mon' # mon =>
        sent' = Append(sent, <<"LCD", ":", "LINE2", ":", EchoText(mon.line),
                               " cm       ">>)

\* the echo loop visits every echo rule of its copy
EchoVisitsAll ==
    /\ mon.pc = "body"
    /\ mon.snap[mon.idx].trigger = "distance_update"
    /\ mon' # mon
    /\ mon'.pc # "body"
    => \A j \in (mon.idx + 1)..Len(mon.snap) :
           mon.snap[j].trigger # "distance_update"

\* an echo rule leaves pending_actions only through clear_all_pending_actions
EchoRuleStays ==
    \A id \in EchoRules(pending_actions) :
        id \notin EchoRules(pending_actions') => id \in cleared'

\* a well-formed DISTANCE line is taken from the Link, while an echo rule is
\* pending, by a reader that is not the monitor
DistanceLineLost ==
    /\ Len(stolen') = Len(stolen) + 1
    /\ IsDistanceLine(stolen'[Len(stolen')])
    /\ CmOf(stolen'[Len(stolen')]) >= 0
    /\ EchoRules(pending_actions) # {}

\* C25: a distance-echo rule is never consumed.  Every DISTANCE line
\* delivered while it is pending reaches the echo loop, the loop writes one
\* LCD:LINE2 line per echo rule, and the rule stays until
\* clear_all_pending_actions removes it.
C25_EchoOnEveryDistanceLine ==
    [][EchoWritesOne /\ EchoVisitsAll /\ EchoRuleStays /\ ~DistanceLineLost]_vars

\* the part of C25 that concerns the lines the monitor itself reads
C25_EchoOnEveryLineRead ==
    [][EchoWritesOne /\ EchoVisitsAll /\ EchoRuleStays]_vars

\* ------------------------------------------------------------------ C26
\* C26: once lcd_clear() has returned, no distance echo is written, for an
\* echo rule that was pending at the return, for a DISTANCE line read after
\* the return (reply.count is the number of lines read when lcd_clear
\* returned, events the number of the line in dispatch).
C26_LcdClearStopsEcho ==
    [][/\ reply.tool = "lcd_clear"
       /\ mon.pc = "body"
       /\ mon.snap[mon.idx].trigger = "distance_update"
       /\ mon.snap[mon.idx].id \in reply.rules
       /\ Len(sent') = Len(sent) + 1
       => events <= reply.count]_vars

\* ------------------------------------------------------------------ C27
\* C27: get_current_status reports every pending rule in registration
\* order.  The rules it lists are as many as the count it reports, they are
\* numbered 1, 2, ..., and they are the rules that were pending when the
\* list was read, echo rules included, in the order of pending_actions.
C27_StatusListsEveryRule ==
    reply.tool = "get_current_status" /\ tool.pc = "idle" =>
        /\ Len(view.pending) = view.count
        /\ \A k \in 1..Len(view.pending) : view.pending[k].n = k
        /\ [k \in 1..Len(view.pending) |-> view.pending[k].id] = view.all

\* ------------------------------------------------------------------ C30
\* the remaining time a written value stands for
SecondsShown(v) == (10 * v[1] + v[2]) * 60 + 10 * v[3] + v[4]

\* what a countdown has written is strictly decreasing, one second per
\* cycle; it has beeped only after writing 0000, at most three times, and
\* three times when it went through the whole burst on an open connection;
\* and a countdown whose total is negative has written and beeped nothing
CountdownShape ==
    \A i \in 1..Len(tasks) :
        LET t == tasks[i]
        IN t.kind = "countdown" =>
               /\ \A n \in 1..(Len(t.shown) - 1) :
                      SecondsShown(t.shown[n + 1]) = SecondsShown(t.shown[n]) - 1
               /\ t.beeps > 0 =>
                      t.shown # <<>> /\ t.shown[Len(t.shown)] = <<0, 0, 0, 0>>
               /\ t.beeps <= 3
               /\ Done(t) /\ t.k = 3 /\ running => t.beeps = 3
               /\ t.total_seconds < 0 => t.shown = <<>> /\ t.beeps = 0

\* the step in which a countdown returns leaves timer_active False
ReturnsWithFlagDown ==
    \A i \in 1..Len(tasks) :
        /\ tasks[i].kind = "countdown"
        /\ tasks[i].pc # "done"
        /\ tasks'[i].pc = "done"
        => ~timer_active'

\* a countdown that was still counting when a stop command returned
StoppedBeforeZero(i) ==
    /\ i \in stop_left
    /\ i \in 1..Len(tasks)
    /\ tasks[i].kind = "countdown"
    /\ tasks[i].pc = "sleep"

\* C30: a countdown writes a strictly decreasing sequence ending in 0000 and
\* only then beeps three times and ends with timer_active false; with a
\* negative total it writes nothing and does not beep; and a countdown that
\* was stopped before it reached zero never beeps.
C30_CountdownBeepsOnlyAtZero ==
    /\ []CountdownShape
    /\ [][ReturnsWithFlagDown]_vars
    /\ \A i \in 1..MaxTasks :
           [](StoppedBeforeZero(i) =>
                  [](i \in 1..Len(tasks) => tasks[i].beeps = 0))

\* the part of C30 that does not concern a stop
C30_CountdownShapeHolds == []CountdownShape /\ [][ReturnsWithFlagDown]_vars

\* ------------------------------------------------------------------ C31
\* the rule has an action kind execute_action has no branch for, or was
\* queued without any parameter
Unprepared(rule) ==
    \/ rule.action_type \notin
           {"buzzer_beep", "start_timer", "led_blink", "display_message",
            "custom_command"}
    \/ DOMAIN rule.params = {}

\* executing a rule is followed by its removal, and a rule of an unknown kind
\* writes nothing to the Link
ExecutedThenRemoved ==
    Len(fired') = Len(fired) + 1 =>
        LET rule == fired'[Len(fired')].action
        IN /\ mon'.pc = "remove"
           /\ mon'.snap[mon'.idx].id = rule.id
           /\ rule.action_type \notin
                  {"buzzer_beep", "start_timer", "led_blink",
                   "display_message", "custom_command"} => sent' = sent

\* the removal of an unprepared rule takes that rule out of pending_actions
\* and the dispatch goes on with the next timer_zero rule of its copy, or
\* ends at the idle sleep
UnpreparedRemovedAndLoopGoesOn ==
    mon.pc = "remove" /\ mon' # mon /\ Unprepared(mon.snap[mon.idx]) =>
        LET rule == mon.snap[mon.idx]
            later == {j \in (mon.idx + 1)..Len(mon.snap) :
                         mon.snap[j].trigger = "timer_zero"}
        IN /\ rule.id \in Ids(pending_actions)
           /\ rule.id \notin Ids(pending_actions')
           /\ Len(pending_actions') = Len(pending_actions) - 1
           /\ IF later = {}
              THEN mon'.pc = "loop"
              ELSE /\ mon'.pc = "body"
                   /\ \A j \in later : mon'.idx <= j
                   /\ mon'.idx \in later

\* the monitor thread is alive and its flag is up
EngineRuns == monitor_running /\ mon.pc # "stopped"

\* C31: firing a rule of an unknown action kind, or one queued without
\* parameters, does not stop the engine.  The monitor thread stays alive, a
\* rule of an unknown kind writes nothing to the Link, the rule is removed
\* after its execution like every one-shot rule, the dispatch goes on with the
\* rest of its copy, and a line read afterwards is stored in full.
C31_UnknownActionDoesNotStopEngine ==
    /\ []EngineRuns
    /\ [][/\ ExecutedThenRemoved
          /\ UnpreparedRemovedAndLoopGoesOn
          /\ (Len(fired) > 0 /\ mon.pc = "update" /\ mon'.pc # "update" =>
                 \A p \in Carried(mon.line, events) :
                     arduino_state'[p[1]] = p[2])]_vars

\* a servo_sweep rule was executed for the first line and removed with
\* nothing written, and the second line, a distance report, has been stored
C31_NextEventAfterUnknownAction ==
    /\ Len(fired) = 1
    /\ fired[1].action.action_type = "servo_sweep"
    /\ fired[1].event = 1
    /\ pending_actions = <<>>
    /\ sent = <<>>
    /\ events = 2
    /\ mon = IdleMon
    /\ arduino_state.distance = 500
    /\ arduino_state.last_update = 2

\* ------------------------------------------------------------------ C32
\* the newest countdown leaves its counting loop in this step, before zero,
\* on an open connection
NewestEndsBeforeZero(j) ==
    /\ j = Len(tasks)
    /\ tasks[j].kind = "countdown"
    /\ tasks[j].pc = "sleep"
    /\ tasks'[j].pc = "done"
    /\ running

\* C32: a running countdown ends only by reaching zero or because a stop was
\* issued after it started; the return of an older countdown, which lowers
\* timer_active, does not stop a newer one.  With countdown commands only,
\* stop_left holds the newest task exactly when 'display stop' was issued
\* after its creation, so: the newest countdown leaves its loop before zero
\* only when it is in stop_left.
C32_OlderReturnLeavesNewerCounting ==
    [][\A j \in 1..Len(tasks) : NewestEndsBeforeZero(j) => j \in stop_left]_vars

\* ------------------------------------------------------------------ C33
\* task i sends nothing in this step: no display value, no beep, and it does
\* not go through another refresh cycle
SendsNothing(i) ==
    /\ tasks'[i].shown = tasks[i].shown
    /\ tasks'[i].beeps = tasks[i].beeps
    /\ tasks'[i].pc = "sleep" => tasks'[i] = tasks[i]

\* C33: once a stop has been signalled for a routine and no routine is
\* started afterwards, the routine sends no further command, also when the
\* stop arrives during the alert burst of a countdown.  stop_left holds the
\* routines of the slot that were alive when the last stop command returned,
\* and is emptied by every later command: a task in stop_left sends nothing.
C33_StoppedRoutineIsSilent ==
    [][\A i \in stop_left : SendsNothing(i)]_vars

\* ------------------------------------------------------------------ C34
\* the number of executions of the rule registered as id
Executions(id) ==
    Cardinality({i \in 1..Len(fired) : fired[i].action.id = id})

\* C34: whatever registrations, clears, starts and stops of the monitor are
\* interleaved with the device's lines, each one-shot rule is executed at
\* most once over the whole run, also when several lines meet its condition.
C34_OneShotExecutedAtMostOnce ==
    \A id \in 1..MaxRules : Executions(id) <= 1

\* ------------------------------------------------------------------ C35
\* the rules that leave pending_actions in this step
Leaving == Ids(pending_actions) \ Ids(pending_actions')

\* C35: a rule registered while a dispatch is in progress is not lost.  A
\* registration changes neither the copy the dispatch runs over nor the rules
\* already pending, and a rule leaves pending_actions only when
\* clear_all_pending_actions drops it or after it has been executed: the
\* remove() of the dispatch takes out no rule that was not executed.
C35_RegistrationDuringDispatchKept ==
    [][/\ next_id' # next_id =>
              /\ Len(pending_actions') = Len(pending_actions) + 1
              /\ SubSeq(pending_actions', 1, Len(pending_actions))
                     = pending_actions
              /\ mon' = mon
       /\ \A id \in Leaving :
              \/ id \in cleared'
              \/ \E i \in 1..Len(fired) : fired[i].action.id = id]_vars

\* ------------------------------------------------------------------ C36
\* the monitor is between two events
AtIdleSleep == mon.pc = "loop"

\* the timer fields as they must be between events
TimerFieldsConsistent ==
    AtIdleSleep =>
        /\ ~arduino_state.timer_active => arduino_state.timer_remaining = 0
        /\ arduino_state.timer_remaining >= 0

\* the timer fields change only while a line of the timer category is being
\* stored, and when it has been stored timer_active tells which of the two
\* it was
TimerFlagFollowsLines ==
    /\ \/ arduino_state'.timer_active # arduino_state.timer_active
       \/ arduino_state'.timer_remaining # arduino_state.timer_remaining
       => /\ mon.pc = "update"
          /\ IsTimerLine(mon.line) \/ IsFinishedLine(mon.line)
    /\ mon.pc = "update" /\ mon'.pc # "update" =>
          /\ IsTimerLine(mon.line) => arduino_state'.timer_active
          /\ IsFinishedLine(mon.line) =>
                 /\ ~arduino_state'.timer_active
                 /\ arduino_state'.timer_remaining = 0

\* C36: whenever the monitor is between events the timer fields are
\* consistent: timer_active False implies timer_remaining 0, timer_remaining
\* is not negative, and timer_active is True exactly when the last line of
\* the timer category that was handled was TIMER:REMAINING.
C36_TimerFieldsConsistentAtIdle ==
    /\ []TimerFieldsConsistent
    /\ [][TimerFlagFollowsLines]_vars

\* C36 without the sign of timer_remaining
C36_TimerFlagMatchesLastLine ==
    /\ [](AtIdleSleep /\ ~arduino_state.timer_active =>
              arduino_state.timer_remaining = 0)
    /\ [][TimerFlagFollowsLines]_vars

\* ------------------------------------------------------------------ C37
\* the telemetry fields and the rule triggers of a line's category
CategoryFields(line) ==
    IF IsTimerLine(line) \/ IsFinishedLine(line)
    THEN {"timer_remaining", "timer_active", "last_update"}
    ELSE IF IsClockLine(line) THEN {"clock_time", "last_update"}
    ELSE IF IsDistanceLine(line) THEN {"distance", "last_update"}
    ELSE {}

CategoryTriggers(line) ==
    IF IsFinishedLine(line) THEN {"timer_zero"}
    ELSE IF IsClockLine(line) THEN {"time_equals"}
    ELSE IF IsDistanceLine(line) THEN {"distance_update", "distance_less_than"}
    ELSE {}

\* the rules of the list whose trigger is none of these
Others(list, triggers) == SelectSeq(list, LAMBDA a : a.trigger \notin triggers)

\* a step of the monitor stays inside the category of the line it is
\* handling; the step that reads a line, recognized or not, changes nothing
StaysInCategory ==
    mon' # mon \/ events' # events =>
        LET line == IF mon.pc = "loop" THEN <<>> ELSE mon.line
        IN /\ \A f \in DOMAIN arduino_state :
                  f \notin CategoryFields(line) =>
                      arduino_state'[f] = arduino_state[f]
           /\ Len(fired') > Len(fired) =>
                  fired'[Len(fired')].action.trigger \in CategoryTriggers(line)
           /\ \A i \in 1..Len(pending_actions) :
                  pending_actions[i].id \in Leaving =>
                      pending_actions[i].trigger \in CategoryTriggers(line)
           /\ Others(pending_actions', CategoryTriggers(line))
                  = Others(pending_actions, CategoryTriggers(line))
           /\ sent' # sent => CategoryTriggers(line) # {}

\* only a line of one of the four categories is handled past its read
OnlyRecognizedHandled ==
    mon.pc # "loop" =>
        \/ IsTimerLine(mon.line) \/ IsFinishedLine(mon.line)
        \/ IsClockLine(mon.line) \/ IsDistanceLine(mon.line)

\* C37: each event touches only its own category.  Handling a line changes
\* only the telemetry fields of the line's category and last_update, executes
\* and removes only rules whose trigger belongs to the category, and leaves
\* the rules of every other trigger in place and in order; a line of no
\* category is not handled past its read, which changes no field of
\* arduino_state, no rule, and sends nothing.
C37_EventTouchesOwnCategory ==
    /\ []OnlyRecognizedHandled
    /\ [][StaysInCategory]_vars

\* COUNTDOWN:FINISHED executed the timer_zero rule while the time_equals rule
\* registered before it stayed pending; the second line read changed nothing
C37_OtherRuleKeptAndLineIgnored ==
    /\ mon = IdleMon
    /\ events = 2
    /\ arduino_state.last_update = 1
    /\ arduino_state.clock_time = NoneValue
    /\ arduino_state.distance = 0
    /\ Len(fired) = 1
    /\ fired[1].action.trigger = "timer_zero"
    /\ fired[1].event = 1
    /\ Len(pending_actions) = 1
    /\ pending_actions[1].trigger = "time_equals"
    /\ pending_actions[1].id = 1
    /\ Len(sent) = 1

\* C38: there is exactly one serial connection: get_arduino called
\* concurrently from the monitor thread and from a tool call never opens a
\* second Serial object while one is open or being opened, and every caller
\* is given the same object.
C38_ExactlyOneConnection ==
    /\ opened <= 1
    /\ Cardinality(UNION {getting[c].all : c \in Callers}) <= 1

====
